---------------------------- MODULE Spec2Model ----------------------------
(***************************************************************************)
(* A model of the OTC desk program                                         *)
(*   src/solana/otc-program/programs/otc/src/lib.rs                        *)
(* One action per instruction handler.  For each handler an operator       *)
(* ...Result gives what a call returns in the current state: "Ok" or the   *)
(* first error of its require! sequence.  A call that returns an error     *)
(* changes no account (the runtime rolls the transaction back), so the     *)
(* handler's action is enabled exactly when the result is "Ok".            *)
(***************************************************************************)
EXTENDS Integers, Sequences, FiniteSets, TLC

(***************************************************************************)
(* Unsigned arithmetic wider than TLC's integers.                          *)
(* A natural number is a sequence of limbs in base 10^4, least significant *)
(* limb first, without leading zero limbs; zero is << >>.  The u64 / u128  *)
(* values of the program (prices, USD totals, payments) are such numbers.  *)
(***************************************************************************)
Base == 100 * 100

RECURSIVE BigNorm(_)
BigNorm(s) ==
    IF s = << >> THEN << >>
    ELSE IF s[Len(s)] = 0 THEN BigNorm(SubSeq(s, 1, Len(s) - 1))
    ELSE s

RECURSIVE BigOf(_)
BigOf(n) == IF n = 0 THEN << >> ELSE <<n % Base>> \o BigOf(n \div Base)

RECURSIVE BigToInt(_)
BigToInt(s) == IF s = << >> THEN 0 ELSE s[1] + Base * BigToInt(Tail(s))

Limb(s, i) == IF i <= Len(s) THEN s[i] ELSE 0

RECURSIVE BigLtFrom(_, _, _)
BigLtFrom(a, b, i) ==
    IF i = 0 THEN FALSE
    ELSE IF a[i] # b[i] THEN a[i] < b[i]
    ELSE BigLtFrom(a, b, i - 1)

BigLt(a, b) ==
    IF Len(a) # Len(b) THEN Len(a) < Len(b) ELSE BigLtFrom(a, b, Len(a))

BigLe(a, b) == ~BigLt(b, a)

RECURSIVE BigAddFrom(_, _, _, _)
BigAddFrom(a, b, i, carry) ==
    IF i > Len(a) /\ i > Len(b)
    THEN (IF carry = 0 THEN << >> ELSE <<carry>>)
    ELSE LET t == Limb(a, i) + Limb(b, i) + carry
         IN  <<t % Base>> \o BigAddFrom(a, b, i + 1, t \div Base)

BigAdd(a, b) == BigAddFrom(a, b, 1, 0)

RECURSIVE BigSubFrom(_, _, _, _)
BigSubFrom(a, b, i, borrow) ==
    IF i > Len(a) THEN << >>
    ELSE LET t == Limb(a, i) - Limb(b, i) - borrow
         IN  IF t < 0 THEN <<t + Base>> \o BigSubFrom(a, b, i + 1, 1)
             ELSE <<t>> \o BigSubFrom(a, b, i + 1, 0)

\* a - b, for a >= b
BigSub(a, b) == BigNorm(BigSubFrom(a, b, 1, 0))

RECURSIVE BigMulLimbFrom(_, _, _, _)
BigMulLimbFrom(a, m, i, carry) ==
    IF i > Len(a)
    THEN (IF carry = 0 THEN << >> ELSE <<carry>>)
    ELSE LET t == a[i] * m + carry
         IN  <<t % Base>> \o BigMulLimbFrom(a, m, i + 1, t \div Base)

\* a * m, for a limb 0 <= m < Base
BigMulLimb(a, m) == IF m = 0 THEN << >> ELSE BigMulLimbFrom(a, m, 1, 0)

BigShift(a) == IF a = << >> THEN << >> ELSE <<0>> \o a

RECURSIVE BigMul(_, _)
BigMul(a, b) ==
    IF b = << >> THEN << >>
    ELSE BigAdd(BigMulLimb(a, b[1]), BigShift(BigMul(a, Tail(b))))

\* the largest limb q in lo..hi with q * d <= cur  (lo * d <= cur is given)
RECURSIVE BigQuotLimb(_, _, _, _)
BigQuotLimb(cur, d, lo, hi) ==
    IF lo = hi THEN lo
    ELSE LET mid == (lo + hi + 1) \div 2
         IN  IF BigLe(BigMulLimb(d, mid), cur)
             THEN BigQuotLimb(cur, d, mid, hi)
             ELSE BigQuotLimb(cur, d, lo, mid - 1)

\* long division of a by d # 0, from the most significant limb i down to 1;
\* rem is the running remainder: <<quotient, remainder>>
RECURSIVE BigDivFrom(_, _, _, _)
BigDivFrom(a, d, i, rem) ==
    IF i = 0 THEN << << >>, rem >>
    ELSE LET cur  == BigNorm(<<a[i]>> \o rem)
             q    == BigQuotLimb(cur, d, 0, Base - 1)
             r    == BigSub(cur, BigMulLimb(d, q))
             rest == BigDivFrom(a, d, i - 1, r)
         IN  << rest[1] \o <<q>>, rest[2] >>

\* short division of a by one limb m # 0, from limb i down to 1; rem < m
RECURSIVE BigDivLimbFrom(_, _, _, _)
BigDivLimbFrom(a, m, i, rem) ==
    IF i = 0 THEN << << >>, rem >>
    ELSE LET cur  == rem * Base + a[i]
             rest == BigDivLimbFrom(a, m, i - 1, cur % m)
         IN  << rest[1] \o <<cur \div m>>, rest[2] >>

\* the number of low zero limbs of d # 0
RECURSIVE LowZeros(_)
LowZeros(d) == IF d[1] # 0 THEN 0 ELSE 1 + LowZeros(Tail(d))

\* a divided by d # 0: [quot, rem].  A divisor m * Base^k of one nonzero
\* limb m (every power of ten is one) is divided by shifting and short
\* division; any other divisor by long division.
BigDivMod(a, d) ==
    LET k == LowZeros(d)
    IN  IF k = Len(d) - 1
        THEN IF Len(a) <= k THEN [quot |-> << >>, rem |-> a]
             ELSE LET hi == SubSeq(a, k + 1, Len(a))
                      r  == BigDivLimbFrom(hi, d[Len(d)], Len(hi), 0)
                  IN  [quot |-> BigNorm(r[1]),
                       rem  |-> BigNorm(SubSeq(a, 1, k) \o <<r[2]>>)]
        ELSE LET r == BigDivFrom(a, d, Len(a), << >>)
             IN  [quot |-> BigNorm(r[1]), rem |-> r[2]]

\* the same by long division only
BigDivModLong(a, d) ==
    LET r == BigDivFrom(a, d, Len(a), << >>)
    IN  [quot |-> BigNorm(r[1]), rem |-> r[2]]

BigDiv(a, d) == BigDivMod(a, d).quot
BigMod(a, d) == BigDivMod(a, d).rem

RECURSIVE BigPow(_, _)
BigPow(a, n) == IF n = 0 THEN <<1>> ELSE BigMul(a, BigPow(a, n - 1))

\* 2^64 and 2^128 (u64::MAX + 1, u128::MAX + 1)
TwoTo64  == <<1616, 955, 737, 6744, 1844>>
TwoTo128 == <<1456, 6821, 4317, 4607, 6337, 4634, 938, 6692, 2823, 340>>
U64Max   == BigSub(TwoTo64, <<1>>)
U128Max  == BigSub(TwoTo128, <<1>>)

(***************************************************************************)
(* Settlement arithmetic (lib.rs 1073-1075 and its uses).  A result is     *)
(* [ok |-> TRUE, val |-> n, err |-> "Ok"] or carries the OtcError it       *)
(* failed with.  Each step takes the result of the step before it, as `?`  *)
(* and and_then chain them in the source.                                  *)
(***************************************************************************)
Ok(n)    == [ok |-> TRUE, val |-> n, err |-> "Ok"]
Err(e)   == [ok |-> FALSE, val |-> << >>, err |-> e]
Overflow == Err("Overflow")

pow10(exp) == BigPow(<<10>>, exp)

\* u128 / u64 checked_mul: the product if it fits
checked_u128(prod) == IF BigLt(U128Max, prod) THEN Overflow ELSE Ok(prod)
checked_u64(prod)  == IF BigLt(U64Max, prod) THEN Overflow ELSE Ok(prod)

\* .and_then(|x| x.checked_div(d))
checked_div(r, d) ==
    IF ~r.ok THEN r
    ELSE IF d = << >> THEN Overflow
    ELSE Ok(BigDiv(r.val, d))

\* a.checked_mul(b).and_then(|x| x.checked_div(d)).ok_or(Overflow)
mul_div_u128(a, b, d) == checked_div(checked_u128(BigMul(a, b)), d)

\* q = prod / d, r = prod % d, if r == 0 { q } else { q + 1 }
CeilQuot(qr) == IF qr.rem = << >> THEN qr.quot ELSE BigAdd(qr.quot, <<1>>)

div_ceil(r, d) == IF ~r.ok THEN r ELSE Ok(CeilQuot(BigDivMod(r.val, d)))

\* checked_mul, then the quotient rounded up (d # 0 at every call site)
mul_div_ceil_u128(a, b, d) == div_ceil(checked_u128(BigMul(a, b)), d)

\* `x as u64` on a u128 result: the low 64 bits
as_u64(r) == IF ~r.ok THEN r ELSE Ok(BigMod(r.val, TwoTo64))

\* u64 checked_mul of a result by m
checked_mul_u64(r, m) == IF ~r.ok THEN r ELSE checked_u64(BigMul(r.val, m))

\* (10_000 - discount_bps as u64) as u64; beyond 10000 the subtraction wraps
DiscountFactor(discount_bps) ==
    IF discount_bps <= 10000 THEN BigOf(10000 - discount_bps)
    ELSE BigSub(BigAdd(TwoTo64, BigOf(10000)), BigOf(discount_bps))

\* The discounted USD total of lines 348-349, 473-474 and 504-505:
\*   mul_div_u128(token_amount, price_8d, 10^decimals)? as u64, then
\*   .checked_mul(10_000 - discount_bps)?.checked_div(10_000)?
DiscountedUsd(token_amount, price_8d, decimals, discount_bps) ==
    checked_div(
        checked_mul_u64(
            as_u64(mul_div_u128(BigOf(token_amount), price_8d, pow10(decimals))),
            DiscountFactor(discount_bps)),
        BigOf(10000))

\* `10_000 - discount_bps as u64` (349, 474, 505) is an unchecked u64
\* subtraction: beyond 10000 bps a build with overflow checks aborts the
\* transaction and a build without them wraps, as DiscountFactor does
DiscountedUsdOutcomes(token_amount, price_8d, decimals, discount_bps) ==
    {DiscountedUsd(token_amount, price_8d, decimals, discount_bps)}
      \cup (IF discount_bps > 10000 THEN {Err("Abort")} ELSE {})

\* line 475: the USDC (6 decimals) charge for a USD total (8 decimals)
UsdcCharge(usd) ==
    IF ~usd.ok THEN usd
    ELSE as_u64(mul_div_ceil_u128(usd.val, BigOf(1000000), BigOf(100000000)))

\* lines 507-508: the lamport charge for a USD total at sol_usd per SOL
LamportCharge(usd, sol_usd) ==
    IF ~usd.ok THEN usd
    ELSE IF ~BigLt(<< >>, sol_usd) THEN Err("NoPrice")
    ELSE as_u64(mul_div_ceil_u128(usd.val, BigOf(1000000000), sol_usd))

\* Rust's i64 division truncates toward zero
TruncDiv(a, b) == IF a >= 0 THEN a \div b ELSE -((-a) \div b)

(***************************************************************************)
(* State.                                                                  *)
(*   desk      the Desk account (lib.rs 967-996)                           *)
(*   registry  the TokenRegistry accounts (1000-1009), by account          *)
(*   cons      the Consignment accounts (1013-1036), by account            *)
(*   offers    the Offer accounts (1040-1061), by account                  *)
(*   treasury  desk_token_treasury.amount, the live token balance          *)
(*   now       Clock::get()?.unix_timestamp                                *)
(* Token amounts and timestamps are integers; prices, USD totals and       *)
(* payments are limb sequences.                                            *)
(***************************************************************************)
VARIABLES desk, registry, cons, offers, treasury, now

vars == <<desk, registry, cons, offers, treasury, now>>

\* Identities (Pubkey).  NoKey is Pubkey::default(); DeskKey is the desk
\* account's own key, which signs as desk_signer.
NoKey   == "default"
DeskKey == "desk"
Owner   == "owner"
Agent   == "agent"
Keys    == {"owner", "agent", "approver", "buyer", "payer", "seller",
            "stranger"}

Day == 86400

\* The clock starts at T0
T0 == 1000

One8d == BigOf(100000000)                    \* $1.00 in 8 decimals
Usd(dollars) == BigMul(BigOf(dollars), One8d)

\* an account that no instruction has initialised
NoOffer ==
    [init |-> FALSE, consignment_id |-> 0, id |-> 0, beneficiary |-> NoKey,
     token_amount |-> 0, discount_bps |-> 0, created_at |-> 0,
     unlock_time |-> 0, price_usd_per_token_8d |-> << >>,
     max_price_deviation_bps |-> 0, sol_usd_price_8d |-> << >>,
     currency |-> 0, approved |-> FALSE, paid |-> FALSE,
     fulfilled |-> FALSE, cancelled |-> FALSE, payer |-> NoKey,
     amount_paid |-> << >>]

NoRegistry ==
    [init |-> FALSE, decimals |-> 0, is_active |-> FALSE,
     token_usd_price_8d |-> << >>, prices_updated_at |-> 0]

NoConsignment ==
    [init |-> FALSE, id |-> 0, consigner |-> NoKey, total_amount |-> 0,
     remaining_amount |-> 0, is_negotiable |-> FALSE,
     fixed_discount_bps |-> 0, fixed_lockup_days |-> 0,
     min_discount_bps |-> 0, max_discount_bps |-> 0,
     min_lockup_days |-> 0, max_lockup_days |-> 0,
     min_deal_amount |-> 0, max_deal_amount |-> 0,
     max_price_volatility_bps |-> 0, is_active |-> FALSE, created_at |-> 0]

RECURSIVE IntPow10(_)
IntPow10(n) == IF n = 0 THEN 1 ELSE 10 * IntPow10(n - 1)

\* init_desk(min_usd_amount_8d, quote_expiry_secs) for a token mint with
\* token_decimals decimals (lines 47-82): the Desk account it writes
init_desk(min_usd_amount_8d, quote_expiry_secs, token_decimals) ==
    [owner |-> Owner, agent |-> Agent,
     min_usd_amount_8d |-> min_usd_amount_8d,
     quote_expiry_secs |-> quote_expiry_secs,
     max_price_age_secs |-> 3600,
     restrict_fulfill |-> FALSE,
     next_consignment_id |-> 1, next_offer_id |-> 1,
     paused |-> FALSE,
     sol_price_feed_id |-> 0, sol_usd_price_8d |-> << >>,
     prices_updated_at |-> 0,
     token_decimals |-> token_decimals,
     token_deposited |-> 0, token_reserved |-> 0,
     token_price_feed_id |-> 0, token_usd_price_8d |-> << >>,
     default_unlock_delay_secs |-> 0,
     max_lockup_secs |-> 365 * Day,
     max_token_per_order |-> 10000 * IntPow10(token_decimals),
     emergency_refund_enabled |-> FALSE,
     emergency_refund_deadline_secs |-> 30 * Day,
     approvers |-> {}]

\* set_approver(who, true) (286-295) and set_emergency_refund (604-609) on
\* a desk account
set_approver(d, who) == [d EXCEPT !.approvers = @ \cup {who}]
set_emergency_refund(d, enabled, deadline_secs) ==
    [d EXCEPT !.emergency_refund_enabled = enabled,
              !.emergency_refund_deadline_secs = deadline_secs]

\* must_be_approver that also admits the desk owner
OwnerOrApprover(who) ==
    who = desk.owner \/ who = desk.agent \/ who \in desk.approvers

only_owner(who)       == who = desk.owner
must_be_approver(who) == who = desk.agent \/ who \in desk.approvers
\* the inventory computed from the desk's token_deposited counter instead
\* of the treasury balance
AvailableFromDeposited(treasury_balance) ==
    IF desk.token_deposited < desk.token_reserved THEN 0
    ELSE desk.token_deposited - desk.token_reserved

available_inventory(treasury_balance) ==
    IF treasury_balance < desk.token_reserved THEN 0
    ELSE treasury_balance - desk.token_reserved

(***************************************************************************)
(* Instruction handlers.  For each handler                                 *)
(*   ...Result  follows its require! conditions in source order and gives  *)
(*              "Ok" or the first error;                                   *)
(*   the operator named as the handler gives the outcome of a call:        *)
(*              its result and the accounts it writes as the call leaves   *)
(*              them.  A call that returns an error leaves every account   *)
(*              as it was: the runtime discards the writes of a failed     *)
(*              transaction;                                               *)
(*   the action takes the step of a call that returns "Ok".                *)
(***************************************************************************)
NoXfer == [asset |-> "none", to |-> NoKey, amount |-> << >>]

Outcome(result, after, before) ==
    [result |-> result, acct |-> IF result = "Ok" THEN after ELSE before]

\* The clock of the cluster moves forward between transactions.
Tick(instants) ==
    /\ \E t \in instants : t > now /\ now' = t
    /\ UNCHANGED <<desk, registry, cons, offers, treasury>>

\* set_prices (163-177), accounts OnlyOwnerDesk (772-777: has_one = owner)
SetPricesResult(who, token_usd_8d, sol_usd_8d, max_age) ==
    IF who # desk.owner THEN "ConstraintHasOne"
    ELSE IF ~(max_age >= 0) THEN "AmountRange"
    ELSE IF ~(BigLt(<< >>, token_usd_8d) /\ BigLe(token_usd_8d, Usd(10000)))
         THEN "BadPrice"
    ELSE IF ~(BigLe(BigOf(1000000), sol_usd_8d)
                /\ BigLe(sol_usd_8d, Usd(100000)))
         THEN "BadPrice"
    ELSE "Ok"

set_prices(who, token_usd_8d, sol_usd_8d, max_age) ==
    Outcome(SetPricesResult(who, token_usd_8d, sol_usd_8d, max_age),
            [desk |-> [desk EXCEPT !.token_usd_price_8d = token_usd_8d,
                                   !.sol_usd_price_8d = sol_usd_8d,
                                   !.prices_updated_at = now,
                                   !.max_price_age_secs = max_age]],
            [desk |-> desk])

DeskStep(out) ==
    /\ out.result = "Ok"
    /\ desk' = out.acct.desk
    /\ UNCHANGED <<registry, cons, offers, treasury, now>>

SetPrices(who, token_usd_8d, sol_usd_8d, max_age) ==
    DeskStep(set_prices(who, token_usd_8d, sol_usd_8d, max_age))

\* the has_one = owner constraint (775) satisfied by the agent as well
OwnerOrAgentResult(who) ==
    IF who # desk.owner /\ who # desk.agent THEN "ConstraintHasOne" ELSE "Ok"

\* pause / unpause (274-284), accounts OnlyOwnerDesk
OwnerOnlyResult(who) == IF who # desk.owner THEN "ConstraintHasOne" ELSE "Ok"

pause(who) ==
    Outcome(OwnerOnlyResult(who), [desk |-> [desk EXCEPT !.paused = TRUE]],
            [desk |-> desk])
unpause(who) ==
    Outcome(OwnerOnlyResult(who), [desk |-> [desk EXCEPT !.paused = FALSE]],
            [desk |-> desk])

Pause(who)   == DeskStep(pause(who))
Unpause(who) == DeskStep(unpause(who))

\* set_emergency_refund (604-609) as an instruction, accounts OnlyOwnerDesk
SetEmergencyRefund(who, enabled, deadline_secs) ==
    DeskStep(Outcome(OwnerOnlyResult(who),
                     [desk |-> set_emergency_refund(desk, enabled,
                                                    deadline_secs)],
                     [desk |-> desk]))

\* set_restrict_fulfill (268-272), accounts OnlyOwnerDesk
SetRestrictFulfill(who, enabled) ==
    DeskStep(Outcome(OwnerOnlyResult(who),
                     [desk |-> [desk EXCEPT !.restrict_fulfill = enabled]],
                     [desk |-> desk]))

\* set_limits (247-261), accounts OnlyOwnerDesk
SetLimitsResult(who, min_usd_amount_8d, max_token_per_order, quote_expiry_secs, default_unlock_delay_secs, max_lockup_secs) ==
    IF who # desk.owner THEN "ConstraintHasOne"
    ELSE IF ~BigLt(<< >>, min_usd_amount_8d) THEN "AmountRange"
    ELSE IF ~(max_token_per_order > 0) THEN "AmountRange"
    ELSE IF ~(quote_expiry_secs > 0) THEN "AmountRange"
    ELSE IF ~(max_lockup_secs >= 0) THEN "AmountRange"
    ELSE IF ~(default_unlock_delay_secs >= 0
              /\ default_unlock_delay_secs <= max_lockup_secs)
         THEN "AmountRange"
    ELSE "Ok"

set_limits(who, min_usd_amount_8d, max_token_per_order, quote_expiry_secs, default_unlock_delay_secs, max_lockup_secs) ==
    Outcome(SetLimitsResult(who, min_usd_amount_8d, max_token_per_order,
                            quote_expiry_secs, default_unlock_delay_secs,
                            max_lockup_secs),
            [desk |-> [desk EXCEPT
                         !.min_usd_amount_8d = min_usd_amount_8d,
                         !.max_token_per_order = max_token_per_order,
                         !.quote_expiry_secs = quote_expiry_secs,
                         !.default_unlock_delay_secs = default_unlock_delay_secs,
                         !.max_lockup_secs = max_lockup_secs]],
            [desk |-> desk])

SetLimits(who, min_usd_amount_8d, max_token_per_order, quote_expiry_secs, default_unlock_delay_secs, max_lockup_secs) ==
    DeskStep(set_limits(who, min_usd_amount_8d, max_token_per_order,
                        quote_expiry_secs, default_unlock_delay_secs,
                        max_lockup_secs))

\* set_agent (263-266), accounts OnlyOwnerDesk
SetAgent(who, new_agent) ==
    DeskStep(Outcome(OwnerOnlyResult(who),
                     [desk |-> [desk EXCEPT !.agent = new_agent]],
                     [desk |-> desk]))

\* set_approver (286-295) as an instruction, accounts OnlyOwnerDesk
SetApproverResult(who, key, allowed) ==
    IF who # desk.owner THEN "ConstraintHasOne"
    ELSE IF allowed /\ key \notin desk.approvers
            /\ ~(Cardinality(desk.approvers) < 32) THEN "TooManyApprovers"
    ELSE "Ok"

SetApprover(who, key, allowed) ==
    DeskStep(Outcome(SetApproverResult(who, key, allowed),
                     [desk |-> IF allowed THEN set_approver(desk, key)
                               ELSE [desk EXCEPT !.approvers = @ \ {key}]],
                     [desk |-> desk]))

\* set_pyth_feeds (179-184), accounts OnlyOwnerDesk; feed id 0 is [0u8; 32]
SetPythFeeds(who, token_feed_id, sol_feed_id) ==
    DeskStep(Outcome(OwnerOnlyResult(who),
                     [desk |-> [desk EXCEPT
                                  !.token_price_feed_id = token_feed_id,
                                  !.sol_price_feed_id = sol_feed_id]],
                     [desk |-> desk]))

\* convert_pyth_price (1079-1098): a Pyth price and exponent as a USD price
\* of 8 decimals
convert_pyth_price(price, exponent) ==
    IF ~(price > 0) THEN Err("BadPrice")
    ELSE IF ~(8 - exponent <= 38 /\ 8 - exponent >= -38) THEN Err("BadPrice")
    ELSE IF 8 - exponent >= 0
         THEN checked_u64(BigMul(BigOf(price), pow10(8 - exponent)))
    ELSE Ok(BigDiv(BigOf(price), pow10(exponent - 8)))

\* get_price_no_older_than (201-207) on a price update account
\* [feed_id, price, exponent, publish_time]: the feed must be the
\* configured one and the price at most max_price_age_secs old
PythResult(quote, feed_id) ==
    IF quote.feed_id # feed_id \/ quote.publish_time + desk.max_price_age_secs < now
    THEN "StalePrice" ELSE "Ok"

\* token_usd_8d > old_price ? token_usd_8d - old_price : old_price - token_usd_8d
PriceDiff(new_price, old_price) ==
    IF BigLt(old_price, new_price) THEN BigSub(new_price, old_price)
    ELSE BigSub(old_price, new_price)

\* the deviation check with `<` for `<=`
DeviationResultStrict(old_price, new_price, max_price_deviation_bps) ==
    IF BigLt(<< >>, old_price) /\ max_price_deviation_bps > 0
       /\ ~BigLt(PriceDiff(new_price, old_price),
                 BigDiv(BigMul(old_price, BigOf(max_price_deviation_bps)),
                        BigOf(10000)))
    THEN "PriceDeviationTooLarge" ELSE "Ok"

\* lines 213-223 for the token price, 225-231 for the SOL price
DeviationResult(old_price, new_price, max_price_deviation_bps) ==
    IF BigLt(<< >>, old_price) /\ max_price_deviation_bps > 0
       /\ ~BigLe(PriceDiff(new_price, old_price),
                 BigDiv(BigMul(old_price, BigOf(max_price_deviation_bps)),
                        BigOf(10000)))
    THEN "PriceDeviationTooLarge" ELSE "Ok"

\* update_prices_from_pyth (186-245), accounts UpdatePricesFromPyth
\* (780-790): any payer signs
UpdatePricesResult(token_feed_id, sol_feed_id, max_price_deviation_bps, token_quote, sol_quote, token_usd_8d, sol_usd_8d) ==
    IF ~(desk.token_price_feed_id # 0 /\ desk.sol_price_feed_id # 0)
    THEN "FeedNotConfigured"
    ELSE IF ~(desk.token_price_feed_id = token_feed_id
              /\ desk.sol_price_feed_id = sol_feed_id) THEN "BadState"
    ELSE IF PythResult(token_quote, desk.token_price_feed_id) # "Ok"
         THEN "StalePrice"
    ELSE IF PythResult(sol_quote, desk.sol_price_feed_id) # "Ok"
         THEN "StalePrice"
    ELSE IF ~token_usd_8d.ok THEN token_usd_8d.err
    ELSE IF ~sol_usd_8d.ok THEN sol_usd_8d.err
    ELSE IF DeviationResult(desk.token_usd_price_8d, token_usd_8d.val,
                            max_price_deviation_bps) # "Ok"
         THEN "PriceDeviationTooLarge"
    ELSE DeviationResult(desk.sol_usd_price_8d, sol_usd_8d.val,
                         max_price_deviation_bps)

UpdatePricesOutcome(result, token_usd_8d, sol_usd_8d) ==
    Outcome(result,
            [desk |-> [desk EXCEPT !.token_usd_price_8d = token_usd_8d.val,
                                   !.sol_usd_price_8d = sol_usd_8d.val,
                                   !.prices_updated_at = now]],
            [desk |-> desk])

update_prices_from_pyth(token_feed_id, sol_feed_id, max_price_deviation_bps, token_quote, sol_quote) ==
    UpdatePricesOutcome(
        UpdatePricesResult(token_feed_id, sol_feed_id, max_price_deviation_bps,
                           token_quote, sol_quote,
                           convert_pyth_price(token_quote.price, token_quote.exponent),
                           convert_pyth_price(sol_quote.price, sol_quote.exponent)),
        convert_pyth_price(token_quote.price, token_quote.exponent),
        convert_pyth_price(sol_quote.price, sol_quote.exponent))

UpdatePricesFromPyth(payer, token_feed_id, sol_feed_id, max_price_deviation_bps, token_quote, sol_quote) ==
    DeskStep(update_prices_from_pyth(token_feed_id, sol_feed_id,
                                     max_price_deviation_bps,
                                     token_quote, sol_quote))

\* register_token (84-100): the TokenRegistry account it writes for a mint
\* of the given decimals
RegisterTokenResult(who) == IF ~only_owner(who) THEN "NotOwner" ELSE "Ok"

register_token(who, decimals) ==
    Outcome(RegisterTokenResult(who),
            [registry |-> [init |-> TRUE, decimals |-> decimals,
                           is_active |-> TRUE, token_usd_price_8d |-> << >>,
                           prices_updated_at |-> 0]],
            [registry |-> NoRegistry])

\* `token_registry` is init (736): the account must not exist yet
RegisterTokenStep(r, out) ==
    /\ out.result = "Ok"
    /\ registry' = [registry EXCEPT ![r] = out.acct.registry]
    /\ UNCHANGED <<desk, cons, offers, treasury, now>>

RegisterToken(who, r, decimals) ==
    ~registry[r].init /\ RegisterTokenStep(r, register_token(who, decimals))

\* create_consignment (102-161): the Consignment account it writes
NewConsignment(id, consigner, amount, t, created_at) ==
    [init |-> TRUE, id |-> id, consigner |-> consigner,
     total_amount |-> amount, remaining_amount |-> amount,
     is_negotiable |-> t.is_negotiable,
     fixed_discount_bps |-> t.fixed_discount_bps,
     fixed_lockup_days |-> t.fixed_lockup_days,
     min_discount_bps |-> t.min_discount_bps,
     max_discount_bps |-> t.max_discount_bps,
     min_lockup_days |-> t.min_lockup_days,
     max_lockup_days |-> t.max_lockup_days,
     min_deal_amount |-> t.min_deal_amount,
     max_deal_amount |-> t.max_deal_amount,
     max_price_volatility_bps |-> t.max_price_volatility_bps,
     is_active |-> TRUE, created_at |-> created_at]

CreateConsignmentResult(amount, t) ==
    IF desk.paused THEN "Paused"
    ELSE IF ~(amount > 0) THEN "AmountRange"
    ELSE IF ~(t.min_deal_amount <= t.max_deal_amount) THEN "AmountRange"
    ELSE IF ~(t.min_discount_bps <= t.max_discount_bps) THEN "Discount"
    ELSE IF ~(t.min_lockup_days <= t.max_lockup_days) THEN "LockupTooLong"
    ELSE "Ok"

create_consignment(consigner, amount, t) ==
    Outcome(CreateConsignmentResult(amount, t),
            [consignment |-> NewConsignment(desk.next_consignment_id,
                                            consigner, amount, t, now),
             desk |-> [desk EXCEPT !.next_consignment_id = @ + 1],
             treasury |-> treasury + amount],
            [consignment |-> NoConsignment, desk |-> desk,
             treasury |-> treasury])

\* `consignment` is init (752): the account must not exist yet
CreateConsignmentStep(ci, out) ==
    /\ out.result = "Ok"
    /\ cons' = [cons EXCEPT ![ci] = out.acct.consignment]
    /\ desk' = out.acct.desk
    /\ treasury' = out.acct.treasury
    /\ UNCHANGED <<registry, offers, now>>

CreateConsignment(consigner, ci, amount, t) ==
    ~cons[ci].init
        /\ CreateConsignmentStep(ci, create_consignment(consigner, amount, t))

\* create_offer_from_consignment (311-393)
LockupDays(lockup_secs) == TruncDiv(lockup_secs, Day)

\* lines 324-326 alone: the amount is not compared with remaining_amount
AmountResultNoInventory(c, token_amount) ==
    IF ~c.is_active THEN "BadState"
    ELSE IF ~(token_amount >= c.min_deal_amount
                /\ token_amount <= c.max_deal_amount) THEN "AmountRange"
    ELSE "Ok"

\* lines 324-327
AmountResult(c, token_amount) ==
    IF ~c.is_active THEN "BadState"
    ELSE IF ~(token_amount >= c.min_deal_amount
                /\ token_amount <= c.max_deal_amount) THEN "AmountRange"
    ELSE IF ~(token_amount <= c.remaining_amount) THEN "InsuffInv"
    ELSE "Ok"

\* lines 329-337
TermsResult(c, discount_bps, lockup_secs) ==
    IF c.is_negotiable
    THEN IF ~(discount_bps >= c.min_discount_bps
                /\ discount_bps <= c.max_discount_bps) THEN "Discount"
         ELSE IF ~(LockupDays(lockup_secs) >= c.min_lockup_days
                     /\ LockupDays(lockup_secs) <= c.max_lockup_days)
              THEN "LockupTooLong"
         ELSE "Ok"
    ELSE IF ~(discount_bps = c.fixed_discount_bps) THEN "Discount"
         ELSE IF ~(LockupDays(lockup_secs) = c.fixed_lockup_days)
              THEN "LockupTooLong"
         ELSE "Ok"

\* the price the offer is quoted at: the registry account's (339-340)
QuotePrice(reg) == reg.token_usd_price_8d

\* when the quoted price was last updated (344)
QuotePriceTime(reg) == reg.prices_updated_at

\* line 350 with > for >=: a total equal to the minimum is rejected
MinUsdResultStrict(usd) ==
    IF ~usd.ok THEN usd.err
    ELSE IF ~BigLt(desk.min_usd_amount_8d, usd.val) THEN "MinUsd"
    ELSE "Ok"

\* lines 348-350, on the discounted total
MinUsdResult(usd) ==
    IF ~usd.ok THEN usd.err
    ELSE IF ~BigLe(desk.min_usd_amount_8d, usd.val) THEN "MinUsd"
    ELSE "Ok"

\* lines 341-350
PricingResult(reg, token_amount, discount_bps) ==
    IF ~BigLt(<< >>, QuotePrice(reg)) THEN "NoPrice"
    ELSE IF QuotePriceTime(reg) > 0
              /\ ~(now - QuotePriceTime(reg) <= desk.max_price_age_secs)
         THEN "StalePrice"
    ELSE MinUsdResult(DiscountedUsd(token_amount, QuotePrice(reg),
                                    reg.decimals, discount_bps))

CreateOfferResult(c, reg, token_amount, discount_bps, currency, lockup_secs) ==
    IF desk.paused THEN "Paused"
    ELSE IF ~(currency = 0 \/ currency = 1) THEN "UnsupportedCurrency"
    ELSE IF AmountResult(c, token_amount) # "Ok"
         THEN AmountResult(c, token_amount)
    ELSE IF TermsResult(c, discount_bps, lockup_secs) # "Ok"
         THEN TermsResult(c, discount_bps, lockup_secs)
    ELSE PricingResult(reg, token_amount, discount_bps)

\* the Offer account as lines 364-382 write it
NewOffer(c, reg, offer_id, beneficiary, token_amount, discount_bps, currency, lockup_secs) ==
    [init |-> TRUE, consignment_id |-> c.id, id |-> offer_id,
     beneficiary |-> beneficiary, token_amount |-> token_amount,
     discount_bps |-> discount_bps, created_at |-> now,
     unlock_time |-> now + lockup_secs,
     price_usd_per_token_8d |-> QuotePrice(reg),
     max_price_deviation_bps |-> c.max_price_volatility_bps,
     sol_usd_price_8d |-> IF currency = 0 THEN desk.sol_usd_price_8d ELSE << >>,
     currency |-> currency, approved |-> FALSE, paid |-> FALSE,
     fulfilled |-> FALSE, cancelled |-> FALSE, payer |-> NoKey,
     amount_paid |-> << >>]

\* line 352 alone: a consignment drawn down to 0 stays active
DrawDownKeepActive(c, token_amount) ==
    [c EXCEPT !.remaining_amount = @ - token_amount]

\* lines 352-355
DrawDown(c, token_amount) ==
    [c EXCEPT !.remaining_amount = @ - token_amount,
              !.is_active = IF c.remaining_amount - token_amount = 0
                            THEN FALSE ELSE @]

\* a call on the offer account `old`, the consignment account c and the
\* registry account reg
create_offer_from_consignment(old, c, reg, beneficiary, token_amount, discount_bps, currency, lockup_secs) ==
    Outcome(CreateOfferResult(c, reg, token_amount, discount_bps, currency,
                              lockup_secs),
            [consignment |-> DrawDown(c, token_amount),
             desk  |-> [desk EXCEPT !.next_offer_id = @ + 1],
             offer |-> NewOffer(c, reg, desk.next_offer_id, beneficiary,
                                token_amount, discount_bps, currency,
                                lockup_secs)],
            [consignment |-> c, desk |-> desk, offer |-> old])

CreateOfferStep(o, ci, out) ==
    /\ out.result = "Ok"
    /\ cons' = [cons EXCEPT ![ci] = out.acct.consignment]
    /\ desk' = out.acct.desk
    /\ offers' = [offers EXCEPT ![o] = out.acct.offer]
    /\ UNCHANGED <<registry, treasury, now>>

\* `offer` is init_if_needed (767): the account may be new or exist already
CreateOfferFromConsignment(beneficiary, o, ci, r, token_amount, discount_bps, currency, lockup_secs) ==
    /\ cons[ci].init /\ registry[r].init
    /\ CreateOfferStep(o, ci,
         create_offer_from_consignment(offers[o], cons[ci], registry[r],
                                       beneficiary, token_amount, discount_bps,
                                       currency, lockup_secs))

\* a step on the offer account o and the desk
OfferStep(o, out) ==
    /\ out.result = "Ok"
    /\ offers' = [offers EXCEPT ![o] = out.acct.offer]
    /\ desk' = out.acct.desk
    /\ UNCHANGED <<registry, cons, treasury, now>>

\* approve_offer without the require! of line 425
ApproveResultRepeatable(who, offer) ==
    IF desk.paused THEN "Paused"
    ELSE IF ~must_be_approver(who) THEN "NotApprover"
    ELSE IF ~(~offer.cancelled /\ ~offer.paid) THEN "BadState"
    ELSE "Ok"

\* approve_offer without the require! of line 424
ApproveResultAnyState(who, offer) ==
    IF desk.paused THEN "Paused"
    ELSE IF ~must_be_approver(who) THEN "NotApprover"
    ELSE IF offer.approved THEN "AlreadyApproved"
    ELSE "Ok"

\* approve_offer (415-430)
ApproveResult(who, offer) ==
    IF desk.paused THEN "Paused"
    ELSE IF ~must_be_approver(who) THEN "NotApprover"
    ELSE IF ~(~offer.cancelled /\ ~offer.paid) THEN "BadState"
    ELSE IF offer.approved THEN "AlreadyApproved"
    ELSE "Ok"

approve_offer(who, offer) ==
    Outcome(ApproveResult(who, offer),
            [offer |-> [offer EXCEPT !.approved = TRUE], desk |-> desk],
            [offer |-> offer, desk |-> desk])

ApproveOffer(who, o) ==
    offers[o].init /\ OfferStep(o, approve_offer(who, offers[o]))

\* cancel_offer (432-454)
QuoteExpiry(offer) == offer.created_at + desk.quote_expiry_secs

\* cancel_offer without the require! of line 440
CancelStateUnchecked(offer) == "Ok"

\* line 440 without its first conjunct
CancelStateFulfilledOnly(offer) ==
    IF offer.fulfilled THEN "BadState" ELSE "Ok"

\* line 440
CancelStateResult(offer) ==
    IF ~(~offer.paid /\ ~offer.fulfilled) THEN "BadState" ELSE "Ok"

\* cancel_offer with > for >= in line 444
CancelResultStrict(caller, offer) ==
    IF desk.paused THEN "Paused"
    ELSE IF CancelStateResult(offer) # "Ok" THEN CancelStateResult(offer)
    ELSE IF caller = offer.beneficiary
         THEN (IF ~(now > QuoteExpiry(offer)) THEN "NotExpired" ELSE "Ok")
    ELSE IF caller = desk.owner \/ caller = desk.agent
              \/ caller \in desk.approvers THEN "Ok"
    ELSE "NotApprover"

CancelResult(caller, offer) ==
    IF desk.paused THEN "Paused"
    ELSE IF CancelStateResult(offer) # "Ok" THEN CancelStateResult(offer)
    ELSE IF caller = offer.beneficiary
         THEN (IF ~(now >= QuoteExpiry(offer)) THEN "NotExpired" ELSE "Ok")
    ELSE IF caller = desk.owner \/ caller = desk.agent
              \/ caller \in desk.approvers THEN "Ok"
    ELSE "NotApprover"

cancel_offer(caller, offer) ==
    Outcome(CancelResult(caller, offer),
            [offer |-> [offer EXCEPT !.cancelled = TRUE], desk |-> desk],
            [offer |-> offer, desk |-> desk])

CancelOffer(caller, o) ==
    offers[o].init /\ OfferStep(o, cancel_offer(caller, offers[o]))

\* lines 468-471 and 499-502 left out: whoever signs may pay
MayFulfillAnyone(payer, offer) == TRUE

\* fulfill_offer_usdc (456-483) and fulfill_offer_sol (485-519)
MayFulfill(payer, offer) ==
    desk.restrict_fulfill =>
        \/ payer = offer.beneficiary \/ payer = desk.owner
        \/ payer = desk.agent \/ payer \in desk.approvers

\* the discounted USD total recomputed at payment (472-474, 503-505) on the
\* desk account d
OfferUsd(d, offer) ==
    DiscountedUsd(offer.token_amount, offer.price_usd_per_token_8d,
                  d.token_decimals, offer.discount_bps)

\* the SOL/USD price a native payment is converted at (506)
SolUsd(d, offer) ==
    IF BigLt(<< >>, offer.sol_usd_price_8d) THEN offer.sol_usd_price_8d
    ELSE d.sol_usd_price_8d

\* the amount a payment of a USD total transfers (475, 507-508)
ChargeOf(usd, sol_usd, currency) ==
    IF currency = 1 THEN UsdcCharge(usd) ELSE LamportCharge(usd, sol_usd)

\* the amount the payment of an offer transfers on the desk account d
\* (472-475, 503-508)
Charge(d, offer, currency) ==
    ChargeOf(OfferUsd(d, offer), SolUsd(d, offer), currency)

\* lines 461-463 alone: the quote expiry of 464-466 is not checked
FulfillStateNoExpiry(offer, currency) ==
    IF ~(offer.currency = currency) THEN "BadState"
    ELSE IF ~offer.approved THEN "NotApproved"
    ELSE IF ~(~offer.cancelled /\ ~offer.paid /\ ~offer.fulfilled) THEN "BadState"
    ELSE "Ok"

\* lines 461-466 and 492-497
FulfillStateResult(offer, currency) ==
    IF ~(offer.currency = currency) THEN "BadState"
    ELSE IF ~offer.approved THEN "NotApproved"
    ELSE IF ~(~offer.cancelled /\ ~offer.paid /\ ~offer.fulfilled) THEN "BadState"
    ELSE IF ~(now <= QuoteExpiry(offer)) THEN "Expired"
    ELSE "Ok"

\* lines 467 and 498
InventoryResult(offer) ==
    IF ~(available_inventory(treasury) >= offer.token_amount) THEN "InsuffInv"
    ELSE "Ok"

\* the checks of a payment whose transfer would be `charge`
FulfillResult(payer, offer, currency, charge) ==
    IF desk.paused THEN "Paused"
    ELSE IF FulfillStateResult(offer, currency) # "Ok"
         THEN FulfillStateResult(offer, currency)
    ELSE IF InventoryResult(offer) # "Ok" THEN InventoryResult(offer)
    ELSE IF ~MayFulfill(payer, offer) THEN "FulfillRestricted"
    ELSE charge.err

\* lines 479-480 and 515-516
Reserve(reserved, token_amount) == reserved + token_amount

FulfillOutcome(payer, offer, currency, charge) ==
    Outcome(FulfillResult(payer, offer, currency, charge),
            [offer |-> [offer EXCEPT !.amount_paid = charge.val,
                                     !.payer = payer, !.paid = TRUE],
             desk  |-> [desk EXCEPT
                          !.token_reserved = Reserve(@, offer.token_amount)],
             xfer  |-> [asset |-> IF currency = 1 THEN "usdc" ELSE "sol",
                        to |-> DeskKey, amount |-> charge.val]],
            [offer |-> offer, desk |-> desk, xfer |-> NoXfer])

fulfill_offer(payer, offer, currency) ==
    FulfillOutcome(payer, offer, currency, Charge(desk, offer, currency))

fulfill_offer_usdc(payer, offer) == fulfill_offer(payer, offer, 1)
fulfill_offer_sol(payer, offer)  == fulfill_offer(payer, offer, 0)

FulfillOfferUsdc(payer, o) ==
    offers[o].init /\ OfferStep(o, fulfill_offer_usdc(payer, offers[o]))
FulfillOfferSol(payer, o) ==
    offers[o].init /\ OfferStep(o, fulfill_offer_sol(payer, offers[o]))

\* claim without the require! of line 532
ClaimResultNoLock(desk_signer, beneficiary, offer) ==
    IF desk.paused THEN "Paused"
    ELSE IF ~(desk_signer = DeskKey) THEN "NotOwner"
    ELSE IF ~(beneficiary = offer.beneficiary) THEN "NotOwner"
    ELSE IF ~(offer.paid /\ ~offer.cancelled /\ ~offer.fulfilled) THEN "BadState"
    ELSE IF ~(treasury >= offer.token_amount) THEN "TransferFailed"
    ELSE IF ~(desk.token_reserved >= offer.token_amount) THEN "Overflow"
    ELSE "Ok"

\* claim (521-548).  desk_signer signs; beneficiary is an unchecked account;
\* beneficiary_token_ata, owned by ata_owner, receives the tokens.
\* token::transfer fails when the treasury holds less than the amount.
ClaimResult(desk_signer, beneficiary, offer) ==
    IF desk.paused THEN "Paused"
    ELSE IF ~(desk_signer = DeskKey) THEN "NotOwner"
    ELSE IF ~(beneficiary = offer.beneficiary) THEN "NotOwner"
    ELSE IF ~(offer.paid /\ ~offer.cancelled /\ ~offer.fulfilled) THEN "BadState"
    ELSE IF ~(now >= offer.unlock_time) THEN "Locked"
    ELSE IF ~(treasury >= offer.token_amount) THEN "TransferFailed"
    ELSE IF ~(desk.token_reserved >= offer.token_amount) THEN "Overflow"
    ELSE "Ok"

\* lines 544, 639 and 684
Release(reserved, token_amount) == reserved - token_amount

claim(desk_signer, beneficiary, ata_owner, offer) ==
    Outcome(ClaimResult(desk_signer, beneficiary, offer),
            [offer |-> [offer EXCEPT !.fulfilled = TRUE],
             desk  |-> [desk EXCEPT
                          !.token_reserved = Release(@, offer.token_amount)],
             treasury |-> treasury - offer.token_amount,
             xfer  |-> [asset |-> "token", to |-> ata_owner,
                        amount |-> BigOf(offer.token_amount)]],
            [offer |-> offer, desk |-> desk, treasury |-> treasury,
             xfer |-> NoXfer])

ClaimStep(o, out) ==
    /\ out.result = "Ok"
    /\ offers' = [offers EXCEPT ![o] = out.acct.offer]
    /\ desk' = out.acct.desk
    /\ treasury' = out.acct.treasury
    /\ UNCHANGED <<registry, cons, now>>

Claim(desk_signer, beneficiary, ata_owner, o) ==
    offers[o].init
        /\ ClaimStep(o, claim(desk_signer, beneficiary, ata_owner, offers[o]))

\* withdraw_tokens without the require! of line 556
WithdrawTokensResultNoReserve(who, desk_signer, amount) ==
    IF who # desk.owner THEN "ConstraintHasOne"
    ELSE IF ~(desk_signer = DeskKey) THEN "NotOwner"
    ELSE IF ~(treasury >= amount) THEN "Overflow"
    ELSE "Ok"

\* withdraw_tokens (550-565), accounts WithdrawTokens (878-889: has_one = owner)
WithdrawTokensResult(who, desk_signer, amount) ==
    IF who # desk.owner THEN "ConstraintHasOne"
    ELSE IF ~only_owner(who) THEN "NotOwner"
    ELSE IF ~(desk_signer = DeskKey) THEN "NotOwner"
    ELSE IF ~(treasury >= amount) THEN "Overflow"
    ELSE IF ~(treasury - amount >= desk.token_reserved) THEN "InsuffInv"
    ELSE "Ok"

withdraw_tokens(who, desk_signer, amount) ==
    Outcome(WithdrawTokensResult(who, desk_signer, amount),
            [treasury |-> treasury - amount,
             xfer |-> [asset |-> "token", to |-> who, amount |-> BigOf(amount)]],
            [treasury |-> treasury, xfer |-> NoXfer])

WithdrawTokensStep(out) ==
    /\ out.result = "Ok"
    /\ treasury' = out.acct.treasury
    /\ UNCHANGED <<desk, registry, cons, offers, now>>

WithdrawTokens(who, desk_signer, amount) ==
    WithdrawTokensStep(withdraw_tokens(who, desk_signer, amount))

\* withdraw_consignment (395-413)
WithdrawConsignmentResult(who, c) ==
    IF ~(c.consigner = who) THEN "NotOwner"
    ELSE IF ~c.is_active THEN "BadState"
    ELSE IF ~(c.remaining_amount > 0) THEN "AmountRange"
    ELSE IF ~(treasury >= c.remaining_amount) THEN "TransferFailed"
    ELSE "Ok"

withdraw_consignment(who, c) ==
    Outcome(WithdrawConsignmentResult(who, c),
            [consignment |-> [c EXCEPT !.is_active = FALSE,
                                       !.remaining_amount = 0],
             treasury |-> treasury - c.remaining_amount,
             xfer |-> [asset |-> "token", to |-> who,
                       amount |-> BigOf(c.remaining_amount)]],
            [consignment |-> c, treasury |-> treasury, xfer |-> NoXfer])

WithdrawConsignmentStep(ci, out) ==
    /\ out.result = "Ok"
    /\ cons' = [cons EXCEPT ![ci] = out.acct.consignment]
    /\ treasury' = out.acct.treasury
    /\ UNCHANGED <<desk, registry, offers, now>>

WithdrawConsignment(who, ci) ==
    cons[ci].init
        /\ WithdrawConsignmentStep(ci, withdraw_consignment(who, cons[ci]))

\* the emergency refunds without the require! of lines 616 and 661
RefundResultAnyState(caller, offer, currency, refund_to) ==
    IF ~desk.emergency_refund_enabled THEN "BadState"
    ELSE IF ~(offer.currency = currency) THEN "BadState"
    ELSE IF ~(now >= offer.created_at + desk.emergency_refund_deadline_secs
                \/ now >= offer.unlock_time + 30 * Day)
         THEN "TooEarlyForRefund"
    ELSE IF ~(caller = offer.payer \/ caller = offer.beneficiary
                \/ caller = desk.owner \/ caller = desk.agent
                \/ caller \in desk.approvers) THEN "NotOwner"
    ELSE IF ~(desk.token_reserved >= offer.token_amount) THEN "Overflow"
    ELSE IF currency = 0 /\ refund_to # offer.payer THEN "TransferFailed"
    ELSE "Ok"

\* emergency_refund_sol (611-654) and emergency_refund_usdc (656-696).
\* refund_to is the owner of the account the caller supplies to be credited;
\* the native transfer names offer.payer as its recipient (642-646), so it
\* fails unless that account is supplied.
RefundResult(caller, offer, currency, refund_to) ==
    IF ~desk.emergency_refund_enabled THEN "BadState"
    ELSE IF ~(offer.paid /\ ~offer.fulfilled /\ ~offer.cancelled) THEN "BadState"
    ELSE IF ~(offer.currency = currency) THEN "BadState"
    ELSE IF ~(now >= offer.created_at + desk.emergency_refund_deadline_secs
                \/ now >= offer.unlock_time + 30 * Day)
         THEN "TooEarlyForRefund"
    ELSE IF ~(caller = offer.payer \/ caller = offer.beneficiary
                \/ caller = desk.owner \/ caller = desk.agent
                \/ caller \in desk.approvers) THEN "NotOwner"
    ELSE IF ~(desk.token_reserved >= offer.token_amount) THEN "Overflow"
    ELSE IF currency = 0 /\ refund_to # offer.payer THEN "TransferFailed"
    ELSE "Ok"

emergency_refund(caller, offer, currency, refund_to) ==
    Outcome(RefundResult(caller, offer, currency, refund_to),
            [offer |-> [offer EXCEPT !.cancelled = TRUE],
             desk  |-> [desk EXCEPT
                          !.token_reserved = Release(@, offer.token_amount)],
             xfer  |-> [asset |-> IF currency = 1 THEN "usdc" ELSE "sol",
                        to |-> refund_to, amount |-> offer.amount_paid]],
            [offer |-> offer, desk |-> desk, xfer |-> NoXfer])

emergency_refund_sol(caller, offer, refund_to) ==
    emergency_refund(caller, offer, 0, refund_to)
emergency_refund_usdc(caller, offer, refund_to) ==
    emergency_refund(caller, offer, 1, refund_to)

EmergencyRefundSol(caller, o, refund_to) ==
    offers[o].init
        /\ OfferStep(o, emergency_refund_sol(caller, offers[o], refund_to))
EmergencyRefundUsdc(caller, o, refund_to) ==
    offers[o].init
        /\ OfferStep(o, emergency_refund_usdc(caller, offers[o], refund_to))

\* deposit_tokens (297-309), accounts DepositTokens (792-801).  The desk
\* account is not declared mut there, so the token_deposited the handler
\* adds to (307) is not written back; the transfer into the treasury is.
DepositTokensResult(who, amount) ==
    IF desk.paused THEN "Paused"
    ELSE IF ~only_owner(who) THEN "NotOwner"
    ELSE "Ok"

deposit_tokens(who, amount) ==
    Outcome(DepositTokensResult(who, amount),
            [treasury |-> treasury + amount,
             xfer |-> [asset |-> "token", to |-> DeskKey, amount |-> BigOf(amount)]],
            [treasury |-> treasury, xfer |-> NoXfer])

DepositTokens(who, amount) == WithdrawTokensStep(deposit_tokens(who, amount))

\* withdraw_usdc (567-579), accounts WithdrawUsdc (892-902: has_one = owner),
\* to the token account
\* `to` from a USDC treasury holding `balance`
WithdrawUsdcResult(who, desk_signer, amount, balance) ==
    IF who # desk.owner THEN "ConstraintHasOne"
    ELSE IF ~only_owner(who) THEN "NotOwner"
    ELSE IF ~(desk_signer = DeskKey) THEN "NotOwner"
    ELSE IF ~(balance >= amount) THEN "TransferFailed"
    ELSE "Ok"

withdraw_usdc(who, desk_signer, to, amount, balance) ==
    Outcome(WithdrawUsdcResult(who, desk_signer, amount, balance),
            [desk |-> desk,
             xfer |-> [asset |-> "usdc", to |-> to, amount |-> BigOf(amount)]],
            [desk |-> desk, xfer |-> NoXfer])

WithdrawUsdc(who, desk_signer, to, amount, balance) ==
    DeskStep(withdraw_usdc(who, desk_signer, to, amount, balance))

\* withdraw_sol (581-602), accounts WithdrawSol (920-929), to the account `to`
\* from a desk account holding `current` lamports of which min_rent must stay
WithdrawSolResult(who, desk_signer, lamports, current, min_rent) ==
    IF ~only_owner(who) THEN "NotOwner"
    ELSE IF ~(desk_signer = DeskKey) THEN "NotOwner"
    ELSE IF ~(current >= lamports) THEN "Overflow"
    ELSE IF ~(current - lamports >= min_rent) THEN "BadState"
    ELSE "Ok"

withdraw_sol(who, desk_signer, to, lamports, current, min_rent) ==
    Outcome(WithdrawSolResult(who, desk_signer, lamports, current, min_rent),
            [desk |-> desk,
             xfer |-> [asset |-> "sol", to |-> to, amount |-> BigOf(lamports)]],
            [desk |-> desk, xfer |-> NoXfer])

WithdrawSol(who, desk_signer, to, lamports, current, min_rent) ==
    DeskStep(withdraw_sol(who, desk_signer, to, lamports, current, min_rent))

(***************************************************************************)
(* The offer lifecycle.                                                    *)
(* Init: the desk after init_desk (minimum $100, quote expiry 600 s, a     *)
(* token of 2 decimals), set_approver("approver"), set_emergency_refund    *)
(* (true, 30 days) and one create_consignment by "seller" of LotCount lots *)
(* of 110 tokens.                                                          *)
(* No instruction of lib.rs writes TokenRegistry.token_usd_price_8d after  *)
(* register_token has zeroed it (97-98), and create_offer_from_consignment *)
(* quotes from that field (340).  The lifecycle is explored from a         *)
(* registry account that carries a price, updated at T0: the account the   *)
(* handler is written for.  SpecCreate below also covers the account that  *)
(* register_token leaves.                                                  *)
(***************************************************************************)
MaxOffers == 1
OfferAccts == 1..MaxOffers

LotCount == 2
LotSize  == 110 * 100                    \* 110 tokens of 2 decimals

NegotiableTerms ==
    [is_negotiable |-> TRUE, fixed_discount_bps |-> 0, fixed_lockup_days |-> 0,
     min_discount_bps |-> 0, max_discount_bps |-> 1000,
     min_lockup_days |-> 0, max_lockup_days |-> 30,
     min_deal_amount |-> 100, max_deal_amount |-> 20000,
     max_price_volatility_bps |-> 0]

PricedRegistry ==
    [init |-> TRUE, decimals |-> 2, is_active |-> TRUE,
     token_usd_price_8d |-> One8d, prices_updated_at |-> T0]

LifeDesk ==
    [set_emergency_refund(set_approver(init_desk(Usd(100), 600, 2), "approver"),
                          TRUE, 30 * Day)
       EXCEPT !.next_consignment_id = 2]

\* the instants the lifecycle observes the clock at: creation, the quote
\* expiry and the second after it, the end of a one-day lockup, and the
\* emergency refund deadline
LifeInstants == {T0 + d : d \in {0, 600, 601, Day, 30 * Day}}

Init ==
    /\ now = T0
    /\ desk = LifeDesk
    /\ registry = [r \in {1} |-> PricedRegistry]
    /\ cons = [c \in {1} |->
                 NewConsignment(1, "seller", LotCount * LotSize,
                                NegotiableTerms, T0)]
    /\ offers = [o \in OfferAccts |-> NoOffer]
    /\ treasury = LotCount * LotSize

SolPrices == {Usd(150), Usd(200)}

Next ==
    \/ Tick(LifeInstants)
    \/ \E sol \in SolPrices : SetPrices(Owner, One8d, sol, 3600)
    \/ \E on \in BOOLEAN : SetEmergencyRefund(Owner, on, 30 * Day)
    \/ \E o \in OfferAccts, cur \in {0, 1}, l \in {0, Day} :
         CreateOfferFromConsignment("buyer", o, 1, 1, LotSize, 500, cur, l)
    \/ \E o \in OfferAccts : ApproveOffer("approver", o)
    \/ \E who \in {"buyer", "owner"}, o \in OfferAccts : CancelOffer(who, o)
    \/ \E o \in OfferAccts : FulfillOfferUsdc("payer", o)
    \/ \E o \in OfferAccts : FulfillOfferSol("payer", o)
    \/ \E o \in OfferAccts : Claim(DeskKey, "buyer", "buyer", o)
    \/ \E o \in OfferAccts : EmergencyRefundUsdc("owner", o, "payer")
    \/ \E o \in OfferAccts : EmergencyRefundSol("owner", o, "payer")

Spec == Init /\ [][Next]_vars

(***************************************************************************)
(* Offer creation.                                                         *)
(* InitCreate: the desk after init_desk (minimum $100), one negotiable     *)
(* consignment and the priced registry account 1.  The owner registers a   *)
(* token (registry account 2), sets prices, pauses and unpauses; the       *)
(* seller lists a second consignment of fixed terms; the clock reaches the *)
(* maximum price age and the second after it.  Offers ask for a lockup of  *)
(* -1 second (lockup_secs is an i64, 317), none, or one day.               *)
(***************************************************************************)
FixedTerms ==
    [is_negotiable |-> FALSE, fixed_discount_bps |-> 500,
     fixed_lockup_days |-> 1,
     min_discount_bps |-> 0, max_discount_bps |-> 0,
     min_lockup_days |-> 0, max_lockup_days |-> 0,
     min_deal_amount |-> 100, max_deal_amount |-> 20000,
     max_price_volatility_bps |-> 0]

CreateInstants == {T0 + 3600, T0 + 3601}

\* the amounts of Scenario A (99 and 101 tokens) and a lot
CreateAmounts == {9900, 10100, LotSize}

InitCreate ==
    /\ now = T0
    /\ desk = [init_desk(Usd(100), 600, 2) EXCEPT !.next_consignment_id = 2]
    /\ registry = [r \in {1, 2} |-> IF r = 1 THEN PricedRegistry ELSE NoRegistry]
    /\ cons = [c \in {1, 2} |->
                 IF c = 1
                 THEN NewConsignment(1, "seller", LotCount * LotSize,
                                     NegotiableTerms, T0)
                 ELSE NoConsignment]
    /\ offers = [o \in OfferAccts |-> NoOffer]
    /\ treasury = LotCount * LotSize

NextCreate ==
    \/ Tick(CreateInstants)
    \/ SetPrices(Owner, One8d, Usd(150), 3600)
    \/ Pause(Owner)
    \/ Unpause(Owner)
    \/ RegisterToken(Owner, 2, 2)
    \/ CreateConsignment("seller", 2, LotSize, FixedTerms)
    \/ \E o \in OfferAccts, ci \in {1, 2}, r \in {1, 2}, a \in CreateAmounts,
          d \in {0, 500}, l \in {-1, 0, Day} :
         CreateOfferFromConsignment("buyer", o, ci, r, a, d, 1, l)

SpecCreate == InitCreate /\ [][NextCreate]_vars

(***************************************************************************)
(* Inventory.                                                              *)
(* InitInv: the desk after init_desk with no minimum (init_desk takes any  *)
(* min_usd_amount_8d, 58) and a consignment that sets no smallest deal.    *)
(* Offers are paid in USDC and cancelled by the approver; the owner        *)
(* withdraws tokens, and deposits them while the treasury holds less than  *)
(* it started with; the seller withdraws the consignment between them.     *)
(***************************************************************************)
InvOffers == 2
InvAccts  == 1..InvOffers

\* offers are created while the desk has handed out at most InvCreates ids
InvCreates == 3

OpenTerms == [NegotiableTerms EXCEPT !.min_deal_amount = 0]

InitInv ==
    /\ now = T0
    /\ desk = [set_approver(init_desk(<< >>, 600, 2), "approver")
                 EXCEPT !.next_consignment_id = 2]
    /\ registry = [r \in {1} |-> PricedRegistry]
    /\ cons = [c \in {1} |->
                 NewConsignment(1, "seller", LotCount * LotSize, OpenTerms, T0)]
    /\ offers = [o \in InvAccts |-> NoOffer]
    /\ treasury = LotCount * LotSize

NextInv ==
    \/ \E o \in InvAccts, a \in {0, LotSize} :
         /\ desk.next_offer_id <= InvCreates
         /\ CreateOfferFromConsignment("buyer", o, 1, 1, a, 0, 1, 0)
    \/ \E o \in InvAccts : ApproveOffer("approver", o)
    \/ \E o \in InvAccts : FulfillOfferUsdc("payer", o)
    \/ \E o \in InvAccts : Claim(DeskKey, "buyer", "buyer", o)
    \/ \E o \in InvAccts : CancelOffer("approver", o)
    \/ treasury < LotCount * LotSize /\ DepositTokens(Owner, LotSize)
    \/ WithdrawTokens(Owner, DeskKey, LotSize)
    \/ WithdrawConsignment("seller", 1)

SpecInv == InitInv /\ [][NextInv]_vars

(***************************************************************************)
(* Approval and cancellation.                                              *)
(* InitAuth: the lifecycle's desk (agent "agent", approver list            *)
(* {"approver"}, quote expiry 600 s).  Offers are created for a buyer who  *)
(* holds no role on the desk, for the listed approver and for the owner;   *)
(* agent and approver approve; beneficiaries and desk roles cancel; offers *)
(* are paid in USDC and claimed; the owner pauses and unpauses.  The clock *)
(* reaches the middle of the quote window, its end and the second after.   *)
(***************************************************************************)
Beneficiaries == {"buyer", "approver", "owner"}

AuthInstants == {T0 + d : d \in {300, 600, 601}}

InitAuth ==
    /\ now = T0
    /\ desk = LifeDesk
    /\ registry = [r \in {1} |-> PricedRegistry]
    /\ cons = [c \in {1} |->
                 NewConsignment(1, "seller", LotCount * LotSize,
                                NegotiableTerms, T0)]
    /\ offers = [o \in OfferAccts |-> NoOffer]
    /\ treasury = LotCount * LotSize

NextAuth ==
    \/ Tick(AuthInstants)
    \/ Pause(Owner)
    \/ Unpause(Owner)
    \/ \E b \in Beneficiaries, o \in OfferAccts :
         CreateOfferFromConsignment(b, o, 1, 1, LotSize, 500, 1, 0)
    \/ \E who \in {"agent", "approver"}, o \in OfferAccts : ApproveOffer(who, o)
    \/ \E who \in {"buyer", "owner", "agent", "approver"}, o \in OfferAccts :
         CancelOffer(who, o)
    \/ \E o \in OfferAccts : FulfillOfferUsdc("payer", o)
    \/ \E b \in Beneficiaries, o \in OfferAccts : Claim(DeskKey, b, b, o)

SpecAuth == InitAuth /\ [][NextAuth]_vars

(***************************************************************************)
(* Payment.                                                                *)
(* InitPay: the desk after init_desk (minimum $100, a token of 0 decimals) *)
(* and set_approver("approver"); three registry accounts priced $1,        *)
(* $1.23456789 and $343.59738388; one consignment whose discount range     *)
(* reaches 20000 bps (create_consignment bounds neither end, 108-110).     *)
(* Offers of 1000 tokens (Scenario B) and of 2^29 tokens are created at a  *)
(* discount of 500 bps in either currency; the owner sets the SOL price    *)
(* and the restrict-fulfill flag; the beneficiary, the approver and an     *)
(* unrelated payer pay; the clock passes the quote expiry.                 *)
(***************************************************************************)
\* offers are created while the desk has handed out at most PayCreates ids
PayCreates == 2

\* 2^29 tokens: at 2^35 + 20 hundred-millionths of a dollar each they are
\* worth 2^64 + 20 * 2^29
BulkAmount == 536870912

PayTerms ==
    [NegotiableTerms EXCEPT !.max_discount_bps = 20000,
                            !.max_deal_amount = BulkAmount]

PayRegistry(r) ==
    [PricedRegistry EXCEPT
       !.decimals = 0,
       !.token_usd_price_8d =
          IF r = 1 THEN One8d
          ELSE IF r = 2 THEN BigOf(123456789)
          ELSE BigAdd(BigPow(<<2>>, 35), BigOf(20))]

InitPay ==
    /\ now = T0
    /\ desk = [set_approver(init_desk(Usd(100), 600, 0), "approver")
                 EXCEPT !.next_consignment_id = 2]
    /\ registry = [r \in {1, 2, 3} |-> PayRegistry(r)]
    /\ cons = [c \in {1} |->
                 NewConsignment(1, "seller", PayCreates * BulkAmount,
                                PayTerms, T0)]
    /\ offers = [o \in OfferAccts |-> NoOffer]
    /\ treasury = PayCreates * BulkAmount

NextPay ==
    \/ Tick({T0 + 601})
    \/ SetPrices(Owner, One8d, Usd(150), 3600)
    \/ \E on \in BOOLEAN : SetRestrictFulfill(Owner, on)
    \/ \E o \in OfferAccts, r \in {1, 2, 3}, a \in {1000, BulkAmount},
          cur \in {0, 1} :
         /\ desk.next_offer_id <= PayCreates
         /\ CreateOfferFromConsignment("buyer", o, 1, r, a, 500, cur, 0)
    \/ \E o \in OfferAccts : ApproveOffer("approver", o)
    \/ \E p \in {"payer", "buyer", "approver"}, o \in OfferAccts :
         FulfillOfferUsdc(p, o)
    \/ \E p \in {"payer", "buyer", "approver"}, o \in OfferAccts :
         FulfillOfferSol(p, o)
    \/ \E o \in OfferAccts : Claim(DeskKey, "buyer", "buyer", o)

SpecPay == InitPay /\ [][NextPay]_vars

(***************************************************************************)
(* Oracle prices.                                                          *)
(* InitOracle: the desk after init_desk, no feed configured and no price   *)
(* cached.  The owner configures the feeds 1 (token) and 2 (SOL) and sets  *)
(* the prices $1 and $150 by hand; anyone submits price updates published  *)
(* at T0, with a deviation cap of 0 or 500 bps: token prices at and one    *)
(* step beyond 5% around $1, SOL prices at and beyond 5% around $150, a    *)
(* price of 0 and an update of another feed.  The clock reaches the        *)
(* maximum price age (3600 s) and the second after it.                     *)
(* convert_pyth_price scales a price by 10^(8 - exponent) (1084, 1091), so *)
(* the updates carry the exponents 8, 6 and 0 at which the converted       *)
(* prices are the ones above; at the exponent -8 the conversion of         *)
(* 100,000,000 overflows.                                                  *)
(***************************************************************************)
PriceUpdate(feed_id, price, exponent) ==
    [feed_id |-> feed_id, price |-> price, exponent |-> exponent,
     publish_time |-> T0]

TokenQuotes ==
    {PriceUpdate(1, p, 8) :
       p \in {0, 94999999, 95000000, 105000000, 105000001}}
      \cup {PriceUpdate(1, 1, 0), PriceUpdate(1, 100000000, -8),
            PriceUpdate(3, 100000000, 8)}

SolQuotes ==
    {PriceUpdate(2, p, 6) :
       p \in {142499999, 142500000, 150000000, 157500000, 157500001}}

InitOracle ==
    /\ now = T0
    /\ desk = init_desk(Usd(100), 600, 2)
    /\ registry = [r \in {1} |-> PricedRegistry]
    /\ cons = [c \in {1} |-> NoConsignment]
    /\ offers = [o \in OfferAccts |-> NoOffer]
    /\ treasury = 0

NextOracle ==
    \/ Tick({T0 + 1800, T0 + 3600, T0 + 3601})
    \/ SetPythFeeds(Owner, 1, 2)
    \/ SetPrices(Owner, One8d, Usd(150), 3600)
    \/ \E bps \in {0, 500}, tq \in TokenQuotes, sq \in SolQuotes :
         UpdatePricesFromPyth("stranger", 1, 2, bps, tq, sq)

SpecOracle == InitOracle /\ [][NextOracle]_vars

(***************************************************************************)
(* Desk administration.                                                    *)
(* InitDesk: the desk after init_desk and one create_consignment.  The     *)
(* owner, the agent and a stranger each call every instruction of accounts *)
(* OnlyOwnerDesk and the three treasury withdrawals, the desk key signing; *)
(* a stranger submits an oracle update; the buyer creates an offer and the *)
(* agent or the approver approves it.                                      *)
(***************************************************************************)
OwnerInstruction(who) ==
    \/ \E cap \in {5000, 1000000} :
         SetLimits(who, Usd(100), cap, 600, 0, 365 * Day)
    \/ SetPrices(who, One8d, Usd(150), 3600)
    \/ Pause(who)
    \/ Unpause(who)
    \/ \E key \in {"agent", "stranger"} : SetAgent(who, key)
    \/ \E allowed \in BOOLEAN : SetApprover(who, "approver", allowed)
    \/ \E on \in BOOLEAN : SetRestrictFulfill(who, on)
    \/ SetPythFeeds(who, 1, 2)
    \/ \E on \in BOOLEAN : SetEmergencyRefund(who, on, 30 * Day)
    \/ WithdrawTokens(who, DeskKey, LotSize)
    \/ WithdrawUsdc(who, DeskKey, who, 5, 10)
    \/ WithdrawSol(who, DeskKey, who, 5, 10, 2)

OracleUpdate ==
    UpdatePricesFromPyth("stranger", 1, 2, 0, PriceUpdate(1, 105000000, 8),
                         PriceUpdate(2, 150000000, 6))

InitDesk ==
    /\ now = T0
    /\ desk = [init_desk(Usd(100), 600, 2) EXCEPT !.next_consignment_id = 2]
    /\ registry = [r \in {1} |-> PricedRegistry]
    /\ cons = [c \in {1} |->
                 NewConsignment(1, "seller", LotCount * LotSize,
                                NegotiableTerms, T0)]
    /\ offers = [o \in OfferAccts |-> NoOffer]
    /\ treasury = LotCount * LotSize

NextDesk ==
    \/ \E who \in {"owner", "agent", "stranger"} : OwnerInstruction(who)
    \/ OracleUpdate
    \/ \E o \in OfferAccts :
         /\ desk.next_offer_id <= MaxOffers
         /\ CreateOfferFromConsignment("buyer", o, 1, 1, LotSize, 500, 1, 0)
    \/ \E who \in {"agent", "approver"}, o \in OfferAccts : ApproveOffer(who, o)

SpecDesk == InitDesk /\ [][NextDesk]_vars

(***************************************************************************)
(* Properties.                                                             *)
(***************************************************************************)

\* C1: in every reachable state, after any sequence of create, approve,
\* cancel, fulfill, claim and emergency-refund transitions, every offer
\* satisfies: fulfilled and cancelled are never both true, and fulfilled
\* implies paid and not cancelled.
C1_OfferFlags ==
    \A o \in DOMAIN offers :
        /\ ~(offers[o].fulfilled /\ offers[o].cancelled)
        /\ offers[o].fulfilled => (offers[o].paid /\ ~offers[o].cancelled)

\* an offer that was created, approved, paid and claimed
C1_Claimed ==
    \E o \in DOMAIN offers :
        offers[o].approved /\ offers[o].paid /\ offers[o].fulfilled

\* C2: once an offer's paid flag is true, no operation of the program
\* (approve, cancel, fulfill, claim, emergency refund, or
\* create_offer_from_consignment invoked with that same offer account) ever
\* sets it back to false.
C2_PaidMonotonic ==
    [][\A o \in DOMAIN offers : offers[o].paid => offers'[o].paid]_vars

\* the requested terms are within the bounds of consignment c
WithinTerms(c, token_amount, discount_bps, lockup_secs) ==
    /\ token_amount >= c.min_deal_amount /\ token_amount <= c.max_deal_amount
    /\ token_amount <= c.remaining_amount
    /\ discount_bps >= c.min_discount_bps /\ discount_bps <= c.max_discount_bps
    /\ lockup_secs >= c.min_lockup_days * Day
    /\ lockup_secs <= c.max_lockup_days * Day

\* the owner has set a valid price and it is not stale
SetPriceFresh ==
    /\ BigLt(<< >>, desk.token_usd_price_8d)
    /\ now - desk.prices_updated_at <= desk.max_price_age_secs

\* floor(floor(token_amount x price / 10^decimals) x (10000 - bps) / 10000)
UsdTotal(token_amount, price_8d, decimals, discount_bps) ==
    BigDiv(BigMul(BigDiv(BigMul(BigOf(token_amount), price_8d),
                         pow10(decimals)),
                  BigOf(10000 - discount_bps)),
           BigOf(10000))

\* the call succeeded and drew token_amount from the consignment c
Drawn(c, token_amount, out) ==
    /\ out.result = "Ok"
    /\ out.acct.consignment.remaining_amount
         = c.remaining_amount - token_amount

\* C3: on an unpaused desk whose owner has set a valid, non-stale price, for
\* an active negotiable consignment, create_offer_from_consignment with
\* currency in {0,1}, a token amount within [min_deal_amount,
\* max_deal_amount] and not above remaining_amount, a discount within
\* [min_discount_bps, max_discount_bps], a lockup within [min_lockup_days,
\* max_lockup_days] and a discounted USD total at or above the desk minimum
\* succeeds, and decrements the consignment's remaining_amount by exactly
\* the token amount.
C3_ValidCreateSucceeds ==
    (~desk.paused /\ SetPriceFresh) =>
        \A ci \in DOMAIN cons, r \in DOMAIN registry, o \in DOMAIN offers,
           a \in CreateAmounts, d \in {0, 500}, cur \in {0, 1}, l \in {0, Day} :
            (/\ cons[ci].init /\ cons[ci].is_active /\ cons[ci].is_negotiable
             /\ registry[r].init
             /\ WithinTerms(cons[ci], a, d, l)
             /\ BigLe(desk.min_usd_amount_8d,
                      UsdTotal(a, desk.token_usd_price_8d,
                               registry[r].decimals, d)))
            => Drawn(cons[ci], a,
                     create_offer_from_consignment(offers[o], cons[ci],
                         registry[r], "buyer", a, d, cur, l))

\* the error kinds of the parameters of a call that are outside the bounds
\* of consignment c
BoundErrors(c, token_amount, discount_bps, lockup_secs) ==
    {k \in {"AmountRange", "InsuffInv", "Discount", "LockupTooLong"} :
        \/ /\ k = "AmountRange"
           /\ ~(token_amount >= c.min_deal_amount
                  /\ token_amount <= c.max_deal_amount)
        \/ /\ k = "InsuffInv"
           /\ token_amount > c.remaining_amount
        \/ /\ k = "Discount"
           /\ IF c.is_negotiable
              THEN ~(discount_bps >= c.min_discount_bps
                       /\ discount_bps <= c.max_discount_bps)
              ELSE discount_bps # c.fixed_discount_bps
        \/ /\ k = "LockupTooLong"
           /\ IF c.is_negotiable
              THEN ~(lockup_secs \div Day >= c.min_lockup_days
                       /\ lockup_secs \div Day <= c.max_lockup_days)
              ELSE lockup_secs \div Day # c.fixed_lockup_days}

\* the call failed with one of the error kinds and left the desk's
\* next_offer_id and the consignment's remaining_amount and is_active alone
Rejected(c, kinds, out) ==
    /\ out.result \in kinds
    /\ out.acct.desk.next_offer_id = desk.next_offer_id
    /\ out.acct.consignment.remaining_amount = c.remaining_amount
    /\ out.acct.consignment.is_active = c.is_active

BadAmounts   == {50, 9900, 20000, 25000}
BadDiscounts == {0, 500, 1001}
BadLockups   == {0, Day, 31 * Day}

OtherChecksPass(c, reg, token_amount, discount_bps, currency, lockup_secs) ==
    /\ ~desk.paused
    /\ currency = 0 \/ currency = 1
    /\ AmountResult(c, token_amount) = "Ok"
    /\ TermsResult(c, discount_bps, lockup_secs) = "Ok"
    /\ BigLt(<< >>, reg.token_usd_price_8d)
    /\ reg.prices_updated_at > 0
         => now - reg.prices_updated_at <= desk.max_price_age_secs

\* the call fails with MinUsd if the total is below the desk minimum and
\* succeeds otherwise
MinUsdOrOk(total, out) ==
    out.result = IF BigLt(total, desk.min_usd_amount_8d) THEN "MinUsd" ELSE "Ok"

\* Scenario A: minimum $100, price $1.00, discount 0
ScenarioA(c, reg) ==
    /\ desk.min_usd_amount_8d = Usd(100)
    /\ reg.token_usd_price_8d = One8d /\ reg.decimals = 2
    /\ OtherChecksPass(c, reg, 9900, 0, 1, 0)
    /\ OtherChecksPass(c, reg, 10100, 0, 1, 0)

ScenarioAResults(below, above) ==
    below.result = "MinUsd" /\ above.result = "Ok"

\* the amounts of Scenario A, exactly 100 tokens, and a lot
MinUsdAmounts == CreateAmounts \cup {10000}

\* C5: when every other validation passes, offer creation fails with MinUsd
\* exactly when the discounted USD total (token_amount x price_8d /
\* 10^decimals, then x (10000 - discount_bps) / 10000) is below the desk's
\* min_usd_amount_8d, and succeeds otherwise; with minimum $100, price $1.00
\* and discount 0, an amount of 99 tokens fails with MinUsd and 101 tokens
\* succeeds.
C5_MinUsdExact ==
    \A ci \in DOMAIN cons, r \in DOMAIN registry, o \in DOMAIN offers :
        (cons[ci].init /\ registry[r].init) =>
            /\ \A a \in MinUsdAmounts, d \in {0, 500}, cur \in {0, 1},
                  l \in {0, Day} :
                   OtherChecksPass(cons[ci], registry[r], a, d, cur, l)
                   => MinUsdOrOk(UsdTotal(a, registry[r].token_usd_price_8d,
                                          registry[r].decimals, d),
                                 create_offer_from_consignment(offers[o],
                                     cons[ci], registry[r], "buyer", a, d,
                                     cur, l))
            /\ ScenarioA(cons[ci], registry[r])
                   => ScenarioAResults(
                          create_offer_from_consignment(offers[o], cons[ci],
                              registry[r], "buyer", 9900, 0, 1, 0),
                          create_offer_from_consignment(offers[o], cons[ci],
                              registry[r], "buyer", 10100, 0, 1, 0))

\* an offer of 101 tokens at discount 0 has been created, and Scenario A
\* still applies to the consignment
C5_Created ==
    /\ offers[1].init /\ offers[1].token_amount = 10100
    /\ offers[1].discount_bps = 0
    /\ ScenarioA(cons[1], registry[1])

\* a price has been set (by set_prices or update_prices_from_pyth) and the
\* current time minus the time of that update exceeds max_price_age_secs
SetPriceStale ==
    /\ desk.prices_updated_at > 0
    /\ now - desk.prices_updated_at > desk.max_price_age_secs

\* C6: offer creation is rejected with StalePrice whenever a price has been
\* set (by set_prices or update_prices_from_pyth) and the current time minus
\* the time of that last price update exceeds the desk's max_price_age_secs;
\* no offer is ever created from a stale price.  (Of a call that passes the
\* checks made before the price is read.)
C6_StaleRejected ==
    (~desk.paused /\ SetPriceStale) =>
        \A ci \in DOMAIN cons, r \in DOMAIN registry, o \in DOMAIN offers,
           a \in CreateAmounts, d \in {0, 500}, cur \in {0, 1}, l \in {0, Day} :
            (/\ cons[ci].init /\ registry[r].init
             /\ AmountResult(cons[ci], a) = "Ok"
             /\ TermsResult(cons[ci], d, l) = "Ok")
            => create_offer_from_consignment(offers[o], cons[ci], registry[r],
                   "buyer", a, d, cur, l).result = "StalePrice"

\* C7: the amount charged by fulfill_offer_usdc and fulfill_offer_sol is
\* determined only by values frozen in the offer at creation (token amount,
\* discount, USD price per token, and for native-asset offers the
\* native-asset/USD price): for any price update (set_prices or
\* update_prices_from_pyth) occurring between creation and fulfillment, the
\* amount paid is the same as if no update had occurred.  No step that
\* leaves an unpaid offer alone changes what its payment would transfer.
C7_ChargeFrozen ==
    [][\A o \in DOMAIN offers :
         (/\ offers[o].init /\ ~offers[o].paid /\ ~offers[o].cancelled
          /\ offers'[o] = offers[o])
         => Charge(desk', offers[o], offers[o].currency)
              = Charge(desk, offers[o], offers[o].currency)]_vars

\* the preconditions of a payment in the variant `currency`
FulfillPre(offer, currency) ==
    /\ offer.approved /\ ~offer.cancelled /\ ~offer.paid /\ ~offer.fulfilled
    /\ offer.currency = currency
    /\ now <= offer.created_at + desk.quote_expiry_secs

\* the error kinds of the preconditions that do not hold
FulfillErrors(offer, currency) ==
    {k \in {"NotApproved", "BadState", "Expired"} :
        \/ k = "NotApproved" /\ ~offer.approved
        \/ /\ k = "BadState"
           /\ \/ offer.cancelled \/ offer.paid \/ offer.fulfilled
              \/ offer.currency # currency
        \/ k = "Expired" /\ now > offer.created_at + desk.quote_expiry_secs}

FulfillGuarded(offer, currency, out) ==
    /\ out.result = "Ok" => FulfillPre(offer, currency)
    /\ ~FulfillPre(offer, currency) =>
         /\ out.result # "Ok"
         /\ ~desk.paused => out.result \in FulfillErrors(offer, currency)
         /\ out.acct.offer = offer /\ out.acct.desk = desk

\* C8: a fulfill transition (fulfill_offer_usdc or fulfill_offer_sol)
\* succeeds only if, in the pre-state, the offer is approved, not cancelled,
\* not paid, not fulfilled, its currency matches the variant called, and
\* now <= created_at + quote_expiry_secs; it fails with NotApproved if
\* unapproved, BadState on a wrong flag or currency, and Expired after the
\* window, leaving offer and desk unchanged.  A call that breaks several
\* preconditions fails with the kind of one of them; a paused desk answers
\* Paused.
C8_FulfillGuarded ==
    \A o \in DOMAIN offers, payer \in {"payer", "buyer"}, cur \in {0, 1} :
        offers[o].init
        => FulfillGuarded(offers[o], cur, fulfill_offer(payer, offers[o], cur))

\* an offer paid within its window, and the clock past the window
C8_Paid ==
    \E o \in DOMAIN offers :
        /\ offers[o].paid /\ offers[o].payer = "payer"
        /\ now > offers[o].created_at + desk.quote_expiry_secs

InventoryBinding(offer, out) ==
    /\ out.result = "Ok" =>
         /\ treasury - desk.token_reserved >= offer.token_amount
         /\ out.acct.desk.token_reserved
              = desk.token_reserved + offer.token_amount
         /\ out.acct.desk.token_reserved <= treasury
    /\ (FulfillPre(offer, 1) /\ ~desk.paused
          /\ treasury - desk.token_reserved < offer.token_amount)
         => out.result = "InsuffInv"

\* C9: with several approved offers outstanding against the same treasury,
\* in any interleaving of fulfill transitions each fulfill succeeds only if
\* live treasury balance minus token_reserved is at least the offer's token
\* amount (InsuffInv otherwise), and each successful fulfill increases
\* token_reserved by exactly that offer's token amount; hence immediately
\* after any successful fulfill token_reserved does not exceed the treasury
\* balance.
C9_InventoryBinding ==
    \A o \in DOMAIN offers :
        offers[o].init
        => InventoryBinding(offers[o], fulfill_offer_usdc("payer", offers[o]))

\* the preconditions of a claim naming `beneficiary`
ClaimPre(beneficiary, offer) ==
    /\ beneficiary = offer.beneficiary
    /\ offer.paid /\ ~offer.cancelled /\ ~offer.fulfilled
    /\ now >= offer.unlock_time

ClaimGuarded(desk_signer, beneficiary, offer, out) ==
    /\ out.result = "Ok" =>
         /\ ClaimPre(beneficiary, offer)
         /\ out.acct.offer.fulfilled
         /\ out.acct.desk.token_reserved
              = desk.token_reserved - offer.token_amount
    /\ beneficiary # offer.beneficiary => out.result # "Ok"
    /\ (/\ desk_signer = DeskKey /\ ~desk.paused
        /\ beneficiary = offer.beneficiary
        /\ offer.paid /\ ~offer.cancelled /\ ~offer.fulfilled
        /\ now < offer.unlock_time)
         => out.result = "Locked"

\* C10: claim succeeds only for the offer's recorded beneficiary, only when
\* the offer is paid, not cancelled and not fulfilled, and only when
\* now >= unlock_time: before unlock_time it fails with Locked, and with any
\* identity other than the recorded beneficiary it fails regardless of
\* timing; a successful claim sets fulfilled = true and decrements
\* token_reserved by the offer's token amount.
C10_ClaimGuarded ==
    \A o \in DOMAIN offers, signer \in {DeskKey, "buyer"},
       b \in {"buyer", "payer", "owner"} :
        offers[o].init
        => ClaimGuarded(signer, b, offers[o],
                        claim(signer, b, b, offers[o]))

\* an offer with a lockup of one day, claimed once the lockup had passed
C10_ClaimedAfterLockup ==
    \E o \in DOMAIN offers :
        /\ offers[o].fulfilled
        /\ offers[o].unlock_time = offers[o].created_at + Day
        /\ now >= offers[o].unlock_time

\* the caller is one of payer, beneficiary, owner, agent or approver
Stakeholder(caller, offer) ==
    \/ caller = offer.payer \/ caller = offer.beneficiary
    \/ caller = desk.owner \/ caller = desk.agent \/ caller \in desk.approvers

\* the desk refunds and the offer is paid, not fulfilled and not cancelled
RefundPre(offer) ==
    /\ desk.emergency_refund_enabled
    /\ offer.paid /\ ~offer.fulfilled /\ ~offer.cancelled

\* now is before both deadlines of an emergency refund
RefundEarly(offer) ==
    /\ now < offer.created_at + desk.emergency_refund_deadline_secs
    /\ now < offer.unlock_time + 30 * Day

RefundRejected(caller, offer, out) ==
    /\ (Stakeholder(caller, offer) /\ RefundEarly(offer))
         => out.result = "TooEarlyForRefund"
    /\ ~Stakeholder(caller, offer) => out.result = "NotOwner"
    /\ out.result # "Ok" => out.acct.offer = offer /\ out.acct.desk = desk

\* C11: an emergency refund of a refundable offer attempted while now is
\* before both created_at + emergency_refund_deadline_secs and
\* unlock_time + 30 days fails with TooEarlyForRefund; attempted by a caller
\* who is none of payer, beneficiary, owner, agent or approver it fails with
\* NotOwner regardless of timing (also before the deadlines); in both cases
\* offer and desk are unchanged.
C11_RefundRejected ==
    \A o \in DOMAIN offers, caller \in Keys :
        (offers[o].init /\ RefundPre(offers[o]))
        => RefundRejected(caller, offers[o],
                          emergency_refund(caller, offers[o],
                                           offers[o].currency,
                                           offers[o].payer))

\* what a successful emergency refund in the variant `currency` requires
\* and does
RefundGuarded(offer, currency, out) ==
    out.result = "Ok" =>
        /\ RefundPre(offer) /\ offer.currency = currency
        /\ out.acct.offer.cancelled
        /\ out.acct.desk.token_reserved
             = desk.token_reserved - offer.token_amount

\* an offer that was paid and then refunded: payment requires an offer that
\* is not cancelled, and cancel_offer one that is not paid
Refunded(offer) == offer.init /\ offer.paid /\ offer.cancelled

\* every claim and every emergency refund on the offer fails
Closed(offer) ==
    /\ \A signer \in {DeskKey, "buyer"}, b \in Keys :
         claim(signer, b, b, offer).result # "Ok"
    /\ \A caller \in Keys, cur \in {0, 1}, to \in Keys :
         emergency_refund(caller, offer, cur, to).result # "Ok"

RefundSafe ==
    \A o \in DOMAIN offers :
        /\ offers[o].init =>
             \A caller \in Keys, cur \in {0, 1}, to \in Keys :
                 RefundGuarded(offers[o], cur,
                               emergency_refund(caller, offers[o], cur, to))
        /\ Refunded(offers[o]) => Closed(offers[o])

\* a refunded offer stays refunded for as long as its account holds it
RefundedStays ==
    \A o \in DOMAIN offers :
        (Refunded(offers[o]) /\ offers'[o].id = offers[o].id)
        => Refunded(offers'[o])

\* C12: an emergency refund succeeds only when the desk has emergency
\* refunds enabled and the offer is paid, not fulfilled, not cancelled and
\* of the matching currency; on success the offer becomes cancelled and
\* token_reserved decreases by the offer's token amount, and from then on
\* every claim and every further emergency refund on that offer fails (no
\* double refund, no claim after refund).
C12_RefundOnce == []RefundSafe /\ [][RefundedStays]_vars

\* an offer refunded at the deadline, its reservation released
C12_Refunded ==
    \E o \in DOMAIN offers :
        /\ Refunded(offers[o]) /\ desk.token_reserved = 0
        /\ now >= offers[o].created_at + desk.emergency_refund_deadline_secs

RefundToPayer(offer, out) ==
    out.result = "Ok" =>
        /\ out.acct.xfer.to = offer.payer
        /\ out.acct.xfer.amount = offer.amount_paid

\* C13: every successful emergency refund (native-asset or quote-asset)
\* returns exactly the offer's amount_paid to the identity recorded as the
\* offer's payer, whichever authorized caller (payer, beneficiary, owner,
\* agent or approver) triggers it and whichever refund destination account
\* that caller supplies.
C13_RefundToPayer ==
    \A o \in DOMAIN offers, caller \in Keys, to \in Keys :
        offers[o].init
        => RefundToPayer(offers[o],
                         emergency_refund(caller, offers[o],
                                          offers[o].currency, to))

\* the offer is neither paid nor fulfilled
Open(offer) == offer.init /\ ~offer.paid /\ ~offer.fulfilled

\* the caller is the desk owner, the agent or a listed approver
DeskRole(caller) ==
    caller = desk.owner \/ caller = desk.agent \/ caller \in desk.approvers

\* C14: for an offer that is neither paid nor fulfilled, cancel_offer called
\* by the desk owner, the agent or any listed approver succeeds at any time
\* (before or after quote expiry) and sets cancelled = true, including when
\* that caller is also the offer's beneficiary.  The desk is not paused.
C14_RoleCancels ==
    \A o \in DOMAIN offers, caller \in Keys :
        (Open(offers[o]) /\ DeskRole(caller) /\ ~desk.paused)
        => /\ cancel_offer(caller, offers[o]).result = "Ok"
           /\ cancel_offer(caller, offers[o]).acct.offer.cancelled

CancelGuarded(caller, offer, out) ==
    /\ (caller = offer.beneficiary /\ out.result = "Ok")
         => now >= offer.created_at + desk.quote_expiry_secs
    /\ out.result = "NotExpired"
         => /\ caller = offer.beneficiary
            /\ now < offer.created_at + desk.quote_expiry_secs
    /\ (Open(offer) /\ ~desk.paused) =>
         /\ (/\ caller = offer.beneficiary
             /\ now < offer.created_at + desk.quote_expiry_secs)
              => out.result = "NotExpired"
         /\ (caller # offer.beneficiary /\ ~DeskRole(caller))
              => out.result = "NotApprover"
    /\ out.result # "Ok" => out.acct.offer = offer /\ out.acct.desk = desk

\* C15: cancel_offer by the beneficiary succeeds only once
\* now >= created_at + quote_expiry_secs and fails with NotExpired before
\* that; cancel_offer by a caller who is neither beneficiary, owner, agent
\* nor approver fails with NotApprover; every failed cancel leaves the offer
\* unchanged.  The error kinds are those of an unpaid, unfulfilled offer on
\* a desk that is not paused.
C15_CancelGuarded ==
    \A o \in DOMAIN offers, caller \in Keys :
        offers[o].init
        => CancelGuarded(caller, offers[o], cancel_offer(caller, offers[o]))

\* an offer of the buyer, cancelled at the very end of its quote window
C15_CancelledAtExpiry ==
    \E o \in DOMAIN offers :
        /\ offers[o].cancelled /\ offers[o].beneficiary = "buyer"
        /\ ~offers[o].paid
        /\ now = offers[o].created_at + desk.quote_expiry_secs

\* the offer is paid or fulfilled
Settled(offer) == offer.init /\ (offer.paid \/ offer.fulfilled)

CancelRefused(offer, out) ==
    /\ out.result # "Ok"
    /\ ~desk.paused => out.result = "BadState"
    /\ out.acct.offer = offer
    /\ out.acct.desk.token_reserved = desk.token_reserved

CancelNeverSettled ==
    \A o \in DOMAIN offers, caller \in Keys :
        Settled(offers[o])
        => CancelRefused(offers[o], cancel_offer(caller, offers[o]))

\* a paid or fulfilled offer stays so for as long as its account holds it
SettledStays ==
    \A o \in DOMAIN offers :
        (Settled(offers[o]) /\ offers'[o].id = offers[o].id)
        => Settled(offers'[o])

\* C16: once an offer is paid or fulfilled, cancel_offer always fails for
\* every caller at every time (with BadState when the desk is not paused)
\* and leaves the offer's flags and the desk's token_reserved unchanged.
C16_NoCancelAfterPayment == []CancelNeverSettled /\ [][SettledStays]_vars

\* a claimed offer, the clock past its quote window
C16_SettledPastExpiry ==
    \E o \in DOMAIN offers :
        /\ offers[o].fulfilled /\ ~offers[o].cancelled
        /\ now > offers[o].created_at + desk.quote_expiry_secs

\* the caller is the desk's agent or on its approver list
MayApprove(who) == who = desk.agent \/ who \in desk.approvers

ApproveGuarded(who, offer, out) ==
    /\ out.result = "Ok" => MayApprove(who)
    /\ ~MayApprove(who) =>
         /\ out.result # "Ok"
         /\ ~desk.paused => out.result = "NotApprover"
         /\ out.acct.offer = offer

\* C17: approve_offer succeeds only when the caller is the desk's agent or
\* a member of the approver list; any other caller, including the desk owner
\* when not listed, fails with NotApprover and the offer is unchanged.  A
\* paused desk answers Paused.
C17_ApproverOnly ==
    \A o \in DOMAIN offers, who \in Keys :
        offers[o].init
        => ApproveGuarded(who, offers[o], approve_offer(who, offers[o]))

\* an approved offer on a desk whose owner is not on the approver list
C17_Approved ==
    \E o \in DOMAIN offers :
        /\ offers[o].approved /\ ~offers[o].paid /\ ~offers[o].cancelled
        /\ ~desk.paused /\ ~MayApprove(desk.owner)

\* a second approve_offer on the accounts a successful first one leaves
SecondApprove(who, first) ==
    first.result = "Ok" =>
        /\ first.acct.offer.approved
        /\ approve_offer(who, first.acct.offer).result = "AlreadyApproved"
        /\ approve_offer(who, first.acct.offer).acct = first.acct

ApproveOnce(who, offer) ==
    /\ SecondApprove(who, approve_offer(who, offer))
    /\ (MayApprove(who) /\ ~desk.paused) =>
         /\ (offer.cancelled \/ offer.paid)
              => approve_offer(who, offer).result = "BadState"
         /\ (offer.approved /\ ~offer.cancelled /\ ~offer.paid)
              => /\ approve_offer(who, offer).result = "AlreadyApproved"
                 /\ approve_offer(who, offer).acct.offer = offer

\* C18: calling approve_offer twice in a row on the same offer by an
\* authorized approver: the first call sets approved = true, the second
\* fails with AlreadyApproved, and the offer state after the failed call
\* equals the state before it; approve on a cancelled or already paid offer
\* fails with BadState.
C18_ApproveOnce ==
    \A o \in DOMAIN offers, who \in {"agent", "approver"} :
        offers[o].init => ApproveOnce(who, offers[o])

\* an approved offer that a second approval is refused on
C18_ApprovedTwice ==
    \E o \in DOMAIN offers :
        /\ offers[o].approved
        /\ approve_offer("agent", offers[o]).result = "AlreadyApproved"

\* the tokens a successful claim releases go to the offer's beneficiary,
\* whichever token account the call names as beneficiary_token_ata
ClaimPaysBeneficiary ==
    \A o \in DOMAIN offers, ata_owner \in Keys :
        (/\ offers[o].init
         /\ claim(DeskKey, offers[o].beneficiary, ata_owner,
                  offers[o]).result = "Ok")
        => claim(DeskKey, offers[o].beneficiary, ata_owner,
                 offers[o]).acct.xfer.to = offers[o].beneficiary

\* a step that lowers the desk token treasury is a claim of one offer, by
\* that offer's token amount
ClaimOnlyLowers ==
    treasury' < treasury
    => \E o \in DOMAIN offers :
           /\ ~offers[o].fulfilled /\ offers'[o].fulfilled
           /\ treasury' = treasury - offers[o].token_amount

\* C19: claim is the only operation that moves traded tokens out of desk
\* custody to an offer's beneficiary: approve, cancel, fulfill and emergency
\* refund never decrease the desk token treasury, and the tokens released by
\* a claim go to the recorded beneficiary of that offer.
C19_ClaimOnlyRelease == []ClaimPaysBeneficiary /\ [][ClaimOnlyLowers]_vars

WithdrawGuarded(who, amount, out) ==
    /\ out.result = "Ok" =>
         /\ who = desk.owner
         /\ treasury - amount >= desk.token_reserved
         /\ out.acct.treasury = treasury - amount
    /\ (/\ who = desk.owner /\ amount <= treasury
        /\ treasury - amount < desk.token_reserved)
         => out.result = "InsuffInv"
    /\ out.result # "Ok" => out.acct.treasury = treasury

WithdrawAmounts == {1, LotSize, LotSize + 1, LotCount * LotSize}

\* C20: withdraw_tokens succeeds only for the desk owner and only if the
\* treasury balance after the withdrawal is at least token_reserved;
\* otherwise it fails (InsuffInv when the remainder would fall below
\* token_reserved) and neither the treasury balance nor token_reserved
\* changes.
C20_WithdrawGuarded ==
    \A who \in Keys, amount \in WithdrawAmounts :
        WithdrawGuarded(who, amount, withdraw_tokens(who, DeskKey, amount))

\* the owner has withdrawn a lot and what is left is all reserved
C20_WithdrawnToReserve ==
    /\ cons[1].is_active
    /\ \A o \in DOMAIN offers : ~offers[o].fulfilled
    /\ desk.token_reserved = LotSize
    /\ treasury = desk.token_reserved

\* C21: while restrict_fulfill is set, a payment of an offer that the owner
\* could pay succeeds for the beneficiary, the owner, the agent and
\* a listed approver and fails with FulfillRestricted for anyone else;
\* while it is not set, it succeeds for any payer.
Privileged(p, offer) ==
    \/ p = offer.beneficiary \/ p = desk.owner
    \/ p = desk.agent \/ p \in desk.approvers

\* the payment a payer attempts in the currency the offer was quoted in
PayOutcome(p, offer) ==
    IF offer.currency = 1 THEN fulfill_offer_usdc(p, offer)
    ELSE fulfill_offer_sol(p, offer)

C21_RestrictFulfill ==
    \A o \in OfferAccts, p \in Keys :
       PayOutcome(desk.owner, offers[o]).result = "Ok"
       => PayOutcome(p, offers[o]).result =
             IF desk.restrict_fulfill /\ ~Privileged(p, offers[o])
             THEN "FulfillRestricted" ELSE "Ok"

C21_RestrictedPaid ==
    \E o \in OfferAccts :
       /\ desk.restrict_fulfill
       /\ offers[o].paid /\ offers[o].payer = "approver"
       /\ offers[o].beneficiary = "buyer"

\* the discounted USD total of an offer in exact arithmetic:
\* floor(floor(token_amount * price / 10^decimals) * (10000 - bps) / 10000)
ExactUsd(token_amount, price_8d, decimals, discount_bps) ==
    BigDiv(BigMul(BigDiv(BigMul(BigOf(token_amount), price_8d),
                         pow10(decimals)),
                  BigOf(10000 - discount_bps)),
           BigOf(10000))

\* ceil(usd * 10^6 / 10^8) in exact arithmetic
ExactUsdc(usd) == CeilQuot(BigDivMod(BigMul(usd, BigOf(1000000)), BigOf(100000000)))

ExactOfferUsd(offer) ==
    ExactUsd(offer.token_amount, offer.price_usd_per_token_8d,
             desk.token_decimals, offer.discount_bps)

\* C22: a USDC payment that succeeds transfers ceil(D * 10^6 / 10^8), D the
\* discounted USD total of the offer, records that amount as amount_paid,
\* and the amount is worth at least D.
UsdcChargeExact(offer, out) ==
    out.result = "Ok"
    => /\ out.acct.xfer.amount = ExactUsdc(ExactOfferUsd(offer))
       /\ out.acct.offer.amount_paid = out.acct.xfer.amount
       /\ BigLe(ExactOfferUsd(offer), BigMul(out.acct.xfer.amount, BigOf(100)))

C22_UsdcCharge ==
    \A o \in OfferAccts :
       UsdcChargeExact(offers[o], fulfill_offer_usdc("payer", offers[o]))

\* C23: each multiply-then-divide of creation and fulfilment either yields
\* the exact result, which fits 64 bits, or fails with Overflow (a missing
\* SOL price aside): the discounted USD total at any discount, and the USDC
\* and lamport charges computed from it.
ExactOrOverflow(r, exact) ==
    IF r.ok THEN r.val = exact /\ BigLe(r.val, U64Max)
    ELSE r.err \in {"Overflow", "Abort", "NoPrice"}

ExactLamports(usd, sol_usd) ==
    CeilQuot(BigDivMod(BigMul(usd, BigOf(1000000000)), sol_usd))

UsdTotalExact(offer, bps) ==
    \A r \in DiscountedUsdOutcomes(offer.token_amount,
                                   offer.price_usd_per_token_8d,
                                   desk.token_decimals, bps) :
       /\ r.ok => bps <= 10000
       /\ ExactOrOverflow(r, ExactUsd(offer.token_amount,
                                      offer.price_usd_per_token_8d,
                                      desk.token_decimals, bps))

ChargesExact(offer) ==
    /\ ExactOrOverflow(Charge(desk, offer, 1), ExactUsdc(ExactOfferUsd(offer)))
    /\ BigLt(<< >>, SolUsd(desk, offer))
       => ExactOrOverflow(Charge(desk, offer, 0),
                          ExactLamports(ExactOfferUsd(offer), SolUsd(desk, offer)))

C23_NoSilentWrap ==
    \A o \in OfferAccts :
       offers[o].init
       => /\ \A bps \in {0, 500, 10000, 10001} : UsdTotalExact(offers[o], bps)
          /\ ChargesExact(offers[o])

\* C24: an oracle update whose feeds, freshness and conversion pass is
\* rejected with PriceDeviationTooLarge exactly when, for the token or the
\* SOL price, the cached price is positive, the cap is positive and
\* |new - old| * 10000 > old * cap; otherwise it succeeds and caches both
\* prices.  From a cached token price of 100,000,000 and a cap of 500 the
\* token prices rejected are those outside [95,000,000, 105,000,000].  A
\* rejected update leaves the desk as it was.
Exceeds(old_price, new_price, bps) ==
    /\ BigLt(<< >>, old_price) /\ bps > 0
    /\ BigLt(BigMul(old_price, BigOf(bps)),
             BigMul(PriceDiff(new_price, old_price), BigOf(10000)))

Admissible(tq, sq) ==
    /\ desk.token_price_feed_id # 0 /\ desk.sol_price_feed_id # 0
    /\ PythResult(tq, desk.token_price_feed_id) = "Ok"
    /\ PythResult(sq, desk.sol_price_feed_id) = "Ok"
    /\ convert_pyth_price(tq.price, tq.exponent).ok
    /\ convert_pyth_price(sq.price, sq.exponent).ok

DeviationGuard(bps, out, new_token, new_sol) ==
    /\ out.result \in {"Ok", "PriceDeviationTooLarge"}
    /\ out.result = "PriceDeviationTooLarge"
       <=> \/ Exceeds(desk.token_usd_price_8d, new_token, bps)
           \/ Exceeds(desk.sol_usd_price_8d, new_sol, bps)
    /\ (desk.token_usd_price_8d = One8d /\ bps = 500
        /\ ~Exceeds(desk.sol_usd_price_8d, new_sol, bps))
       => (out.result = "PriceDeviationTooLarge"
           <=> \/ BigLt(new_token, BigOf(95000000))
               \/ BigLt(BigOf(105000000), new_token))
    /\ out.result = "Ok"
       => /\ out.acct.desk.token_usd_price_8d = new_token
          /\ out.acct.desk.sol_usd_price_8d = new_sol
          /\ out.acct.desk.prices_updated_at = now
    /\ out.result # "Ok" => out.acct.desk = desk

C24_DeviationGuard ==
    \A bps \in {0, 500}, tq \in TokenQuotes, sq \in SolQuotes :
       Admissible(tq, sq)
       => DeviationGuard(bps,
                         update_prices_from_pyth(desk.token_price_feed_id,
                                                 desk.sol_price_feed_id,
                                                 bps, tq, sq),
                         convert_pyth_price(tq.price, tq.exponent).val,
                         convert_pyth_price(sq.price, sq.exponent).val)

C24_BoundaryCached ==
    /\ desk.token_usd_price_8d = BigOf(105000000)
    /\ desk.sol_usd_price_8d = Usd(150)
    /\ \E tq \in TokenQuotes, sq \in SolQuotes :
          /\ Admissible(tq, sq)
          /\ update_prices_from_pyth(1, 2, 500, tq, sq).result
               = "PriceDeviationTooLarge"

\* C25: every step that creates an offer creates it with a token amount of
\* at most the desk's max_token_per_order.
CreatedWithinOrderCap ==
    \A o \in OfferAccts :
       (offers'[o].init /\ offers'[o].id # offers[o].id)
       => offers'[o].token_amount <= desk.max_token_per_order

C25_OrderCap == [][CreatedWithinOrderCap]_vars

\* C26: a consignment is active exactly while its remaining_amount is
\* positive (a withdrawn consignment has none left); no step raises its
\* remaining_amount, and an inactive consignment never becomes active.
ConsActive ==
    \A c \in DOMAIN cons :
       cons[c].init => (cons[c].is_active <=> cons[c].remaining_amount > 0)

ConsOnlyShrinks ==
    \A c \in DOMAIN cons :
       cons[c].init
       => /\ cons'[c].remaining_amount <= cons[c].remaining_amount
          /\ ~cons[c].is_active => ~cons'[c].is_active

C26_ConsignmentInventory == []ConsActive /\ [][ConsOnlyShrinks]_vars

C26_Exhausted ==
    /\ ~cons[1].is_active /\ cons[1].remaining_amount = 0
    /\ \E o \in InvAccts : offers[o].cancelled
    /\ \E o \in InvAccts : offers[o].init /\ ~offers[o].cancelled

\* C27: the limits, the maximum price age, the pause flag, the agent, the
\* approver list, the restrict-fulfill flag, the feed ids and the
\* emergency-refund settings change only in a step that is an owner-only
\* instruction called by the owner, and so do the cached prices unless the
\* step is an oracle update; called by anyone else, each of these
\* instructions and each treasury withdrawal (tokens, USDC, SOL) fails and
\* changes nothing, even with the desk key signing.
Settings(d) ==
    <<d.min_usd_amount_8d, d.max_token_per_order, d.quote_expiry_secs,
      d.default_unlock_delay_secs, d.max_lockup_secs, d.max_price_age_secs,
      d.paused, d.agent, d.approvers, d.restrict_fulfill,
      d.token_price_feed_id, d.sol_price_feed_id,
      d.emergency_refund_enabled, d.emergency_refund_deadline_secs>>

CachedPrices(d) ==
    <<d.token_usd_price_8d, d.sol_usd_price_8d>>

Refused(out, before) == out.result # "Ok" /\ out.acct = before

NonOwnerRefused ==
    \A who \in Keys \ {desk.owner} :
       /\ Refused(set_limits(who, Usd(100), 5000, 600, 0, 365 * Day),
                  [desk |-> desk])
       /\ Refused(set_prices(who, One8d, Usd(150), 3600), [desk |-> desk])
       /\ Refused(pause(who), [desk |-> desk])
       /\ Refused(unpause(who), [desk |-> desk])
       /\ OwnerOnlyResult(who) # "Ok"
       /\ \A allowed \in BOOLEAN :
             SetApproverResult(who, "stranger", allowed) # "Ok"
       /\ \A signer \in {DeskKey, who} :
             /\ Refused(withdraw_tokens(who, signer, 1),
                        [treasury |-> treasury, xfer |-> NoXfer])
             /\ Refused(withdraw_usdc(who, signer, who, 1, 10),
                        [desk |-> desk, xfer |-> NoXfer])
             /\ Refused(withdraw_sol(who, signer, who, 1, 10, 2),
                        [desk |-> desk, xfer |-> NoXfer])

OwnerChangesSettings ==
    /\ Settings(desk') # Settings(desk) => OwnerInstruction(desk.owner)
    /\ CachedPrices(desk') # CachedPrices(desk)
       => OwnerInstruction(desk.owner) \/ OracleUpdate
    /\ treasury' < treasury => OwnerInstruction(desk.owner)

C27_OwnerOnly == []NonOwnerRefused /\ [][OwnerChangesSettings]_vars

C27_Administered ==
    /\ desk.agent = "stranger" /\ desk.paused /\ desk.restrict_fulfill
    /\ desk.max_token_per_order = 5000
    /\ desk.token_price_feed_id = 1
    /\ treasury < LotCount * LotSize
    /\ \E o \in OfferAccts : offers[o].approved

\* C28: available_inventory of a balance is max(0, balance - token_reserved):
\* never negative, 0 at balance = token_reserved, the balance itself while
\* nothing is reserved; the inventory check of a payment passes exactly
\* when the offer's amount is at most that value for the treasury's balance.
Monus(a, b) == IF a - b > 0 THEN a - b ELSE 0

InvBalances == {n * LotSize : n \in 0..(LotCount + 1)}

C28_AvailableInventory ==
    /\ \A b \in InvBalances \cup {treasury} :
          /\ available_inventory(b) = Monus(b, desk.token_reserved)
          /\ available_inventory(b) >= 0
          /\ desk.token_reserved = 0 => available_inventory(b) = b
    /\ available_inventory(desk.token_reserved) = 0
    /\ \A o \in InvAccts :
          InventoryResult(offers[o]) = "Ok"
          <=> offers[o].token_amount <= Monus(treasury, desk.token_reserved)

C28_Saturated ==
    /\ desk.token_reserved > treasury
    /\ available_inventory(treasury) = 0
    /\ \E o \in InvAccts : offers[o].paid /\ ~offers[o].fulfilled

\* C29: token_reserved is the sum of token_amount over the offers that are
\* paid and neither fulfilled nor cancelled.
LivePaid(offer) ==
    offer.init /\ offer.paid /\ ~offer.fulfilled /\ ~offer.cancelled

RECURSIVE ReservedSum(_)
ReservedSum(accts) ==
    IF accts = {} THEN 0
    ELSE LET o == CHOOSE x \in accts : TRUE
         IN  (IF LivePaid(offers[o]) THEN offers[o].token_amount ELSE 0)
               + ReservedSum(accts \ {o})

C29_ReservedIsPaidSum == desk.token_reserved = ReservedSum(DOMAIN offers)

\* C30: the treasury's token balance is at least token_reserved.
C30_TreasuryCoversReserved == treasury >= desk.token_reserved

\* C31: while the desk is not paused, a claim for the recorded beneficiary
\* of an offer that is paid, not fulfilled and not cancelled succeeds as
\* soon as now >= unlock_time.
C31_ClaimAvailable ==
    \A o \in InvAccts :
       (LivePaid(offers[o]) /\ ~desk.paused /\ now >= offers[o].unlock_time)
       => claim(DeskKey, offers[o].beneficiary, offers[o].beneficiary,
                offers[o]).result = "Ok"

\* every approval, payment and claim of the offer fails
Dead(offer) ==
    /\ \A who \in Keys : approve_offer(who, offer).result # "Ok"
    /\ \A p \in {"payer", offer.beneficiary} :
         /\ fulfill_offer_usdc(p, offer).result # "Ok"
         /\ fulfill_offer_sol(p, offer).result # "Ok"
    /\ \A signer \in {DeskKey, offer.beneficiary}, b \in Keys :
         claim(signer, b, b, offer).result # "Ok"

CancelledDead ==
    \A o \in DOMAIN offers :
       (offers[o].init /\ offers[o].cancelled) => Dead(offers[o])

\* a cancelled offer keeps its flags for as long as its account holds it
CancelledStays ==
    \A o \in DOMAIN offers :
       (offers[o].init /\ offers[o].cancelled /\ offers'[o].id = offers[o].id)
       => /\ offers'[o].cancelled
          /\ offers'[o].approved = offers[o].approved
          /\ offers'[o].paid = offers[o].paid
          /\ offers'[o].fulfilled = offers[o].fulfilled

C33_WindowsDisjoint ==
    \A o \in DOMAIN offers :
       (offers[o].init /\ offers[o].approved
          /\ ~offers[o].paid /\ ~offers[o].cancelled)
       => ~(/\ PayOutcome("payer", offers[o]).result = "Ok"
            /\ cancel_offer(offers[o].beneficiary, offers[o]).result = "Ok")

\* C34: every offer has unlock_time >= created_at, and an offer created
\* from a negotiable consignment is locked for at least the consignment's
\* min_lockup_days.
LockupRespected(offer, c) ==
    /\ offer.unlock_time >= offer.created_at
    /\ c.is_negotiable
       => offer.unlock_time - offer.created_at >= c.min_lockup_days * Day

C34_LockupFloor ==
    \A o \in DOMAIN offers :
       offers[o].init => LockupRespected(offers[o], cons[offers[o].consignment_id])
=============================================================================
